---- MODULE Spec2Model ----
(***************************************************************************)
(* NewspaperBrowser backend: the record store (newspapers, issues, pages,  *)
(* ingest_jobs), the repositories over it and the browse routes.           *)
(*                                                                         *)
(* Every store call (one .execute() of the Supabase client) is one atomic  *)
(* step.  A repository method that makes two store calls is two actions,   *)
(* so that other workers' store calls can fall between them.               *)
(***************************************************************************)
EXTENDS Integers, Sequences, FiniteSets, TLC

VARIABLES
    newspapers, \* rows of table "newspapers"
    issues,     \* rows of table "issues"
    pages,      \* rows of table "pages"
    jobs,       \* rows of table "ingest_jobs"
    nextId,     \* next id the store generates for an inserted row
    call,       \* call[w]: the repository call worker w is in (op, pc, args, locals, ret)
    returned,   \* log of what completed keyed calls returned: [tbl, key, ret]
    ncalls,     \* number of repository calls started so far
    hist,       \* history of the progress writes (see InitProgress)
    resp        \* the last HTTP response of the browse routes

vars == <<newspapers, issues, pages, jobs, nextId, call, returned, ncalls,
          hist, resp>>

(***************************************************************************)
(* Bounds of the model.                                                    *)
(***************************************************************************)
MaxCalls == 4        \* create_or_get calls in SpecCreateOrGet
MaxSubmits == 4      \* submissions in SpecSubmit
MaxUpdates == 2      \* job-tracker calls in SpecUpdateJob
MaxIncrements == 3   \* increment_progress calls in SpecProgress
MaxRingCalls == 12   \* increment_progress calls in SpecRing
MaxLimit == 3        \* largest limit a browse request asks for
MaxOffset == 4       \* largest offset a browse request asks for
MaxGetOrCreate == 4  \* get_or_create calls in SpecNewspapers
MaxWrites == 2       \* repository calls in SpecWriteFailure
MaxPages == 3        \* pages of a document in SpecProcess

Workers == {"w1", "w2"}

(***************************************************************************)
(* Python's None and Optional[T]: None is the empty tuple, a present value *)
(* v is <<v>>.  Nullable columns and Optional arguments hold these.        *)
(***************************************************************************)
None == <<>>
Some(v) == <<v>>

(***************************************************************************)
(* dict helpers.  A dict is a function from keys to values.                *)
(***************************************************************************)
\* model_dump(exclude_none=True) / {k: v for k, v in data.items() if v is not None}
\* on a dict whose values are Optional: the None entries are dropped.
ExcludeNone(d) == [k \in {x \in DOMAIN d : d[x] # None} |-> d[k][1]]

\* The store writes dict d over row r: the columns named in d take d's
\* values (nullable columns hold Optional values), the others are kept.
Merge(r, d, nullable) ==
    [c \in DOMAIN r |->
        IF c \in DOMAIN d
        THEN (IF c \in nullable THEN Some(d[c]) ELSE d[c])
        ELSE r[c]]

\* .maybe_single().execute(): no row gives None, one row gives the row, several
\* rows make the client raise.
maybe_single(rows) ==
    IF rows = {} THEN [kind |-> "none"]
    ELSE IF Cardinality(rows) = 1
         THEN [kind |-> "row", row |-> CHOOSE r \in rows : TRUE]
         ELSE [kind |-> "error"]

(***************************************************************************)
(* Tables: column defaults of an inserted row and the nullable columns.    *)
(***************************************************************************)
IssueDefaults ==
    [id |-> 0, newspaper_id |-> "", issue_date |-> 0, num_pages |-> 0,
     source_type |-> "upload", source_external_id |-> None, metadata |-> None]
IssueNullable == {"source_external_id", "metadata"}

PageDefaults ==
    [id |-> 0, issue_id |-> 0, page_number |-> 0, image_path |-> "",
     ocr_text |-> None, ocr_confidence |-> None, ocr_provider |-> None,
     ocr_version |-> None, ocr_meta |-> None, ingestion_status |-> "pending"]
PageNullable ==
    {"ocr_text", "ocr_confidence", "ocr_provider", "ocr_version", "ocr_meta"}

(***************************************************************************)
(* BaseRepository._execute_upsert: .upsert(data, on_conflict=cols).        *)
(* A row that agrees with data on the conflict columns is updated with     *)
(* data; without one, a row with a fresh id is inserted.  The result is    *)
(* the set of rows after the write and the rows the store returns.         *)
(***************************************************************************)
Conflicting(rows, data, cols) == {r \in rows : \A c \in cols : r[c] = data[c]}

\* A plain insert in place of the upsert: no conflict handling.
PlainInsertUpsert(rows, data, cols, defaults, nullable, id) ==
    LET new == Merge([defaults EXCEPT !.id = id], data, nullable)
    IN [rows |-> rows \cup {new}, data |-> {new}]

\* An upsert that replaces the conflicting row by a new row with a fresh id.
ReplaceRowUpsert(rows, data, cols, defaults, nullable, id) ==
    LET hit == {r \in rows : \A c \in cols : r[c] = data[c]}
        new == Merge([defaults EXCEPT !.id = id], data, nullable)
    IN [rows |-> (rows \ hit) \cup {new}, data |-> {new}]

execute_upsert(rows, data, cols, defaults, nullable, id) ==
    LET hit == Conflicting(rows, data, cols)
        new == Merge([defaults EXCEPT !.id = id], data, nullable)
        upd == {Merge(r, data, nullable) : r \in hit}
    IN IF hit = {}
       THEN [rows |-> rows \cup {new}, data |-> {new}]
       ELSE [rows |-> (rows \ hit) \cup upd, data |-> upd]

(***************************************************************************)
(* Worker bookkeeping.                                                     *)
(***************************************************************************)
IdleCall == [op |-> "none", pc |-> "idle"]

CanStart(w, max) == call[w].pc \in {"idle", "done"} /\ ncalls < max

Ok(id) == [id |-> id, status |-> "ok"]
Raised(msg) == [status |-> "error", msg |-> msg]

(***************************************************************************)
(* IssueRepository.create_or_get                                           *)
(***************************************************************************)
NewspaperIds == {"n1"}
\* issue dates, as day numbers
IssueDates == {1, 2}
NumPagesArgs == {0, 4}
MetadataArgs == {None, Some("m")}

\* get_by_newspaper_and_date
get_by_newspaper_and_date(newspaper_id, issue_date) ==
    maybe_single({r \in issues :
        r.newspaper_id = newspaper_id /\ r.issue_date = issue_date})

\* IssueCreate(...) as a dict of Optional values
IssueCreate(a) ==
    [newspaper_id |-> Some(a.newspaper_id), issue_date |-> Some(a.issue_date),
     num_pages |-> Some(a.num_pages), source_type |-> Some(a.source_type),
     source_external_id |-> a.source_external_id, metadata |-> a.metadata]

\* A create_or_get without the fast path: it upserts whether or not the key
\* is stored.
IssueCreateOrGetAlwaysUpsert(w, a) ==
    /\ CanStart(w, MaxCalls)
    /\ ncalls' = ncalls + 1
    /\ LET res == execute_upsert(issues, ExcludeNone(IssueCreate(a)),
                                {"newspaper_id", "issue_date"},
                                IssueDefaults, IssueNullable, nextId)
           row == CHOOSE r \in res.data : TRUE
       IN /\ issues' = res.rows
          /\ nextId' = IF \E r \in res.rows : r.id = nextId
                       THEN nextId + 1 ELSE nextId
          /\ call' = [call EXCEPT ![w] =
                 [op |-> "issue_create_or_get", pc |-> "done", args |-> a,
                  via |-> "upsert", ret |-> Ok(row.id)]]
          /\ returned' = returned \cup
                 {[ret |-> Ok(row.id), tbl |-> "issues",
                   key |-> <<a.newspaper_id, a.issue_date>>]}
    /\ UNCHANGED <<newspapers, pages, jobs, hist, resp>>

\* First store call: the existence read.  An existing issue is returned at once.
IssueCreateOrGetRead(w, a) ==
    /\ CanStart(w, MaxCalls)
    /\ ncalls' = ncalls + 1
    /\ LET existing == get_by_newspaper_and_date(a.newspaper_id, a.issue_date)
           op == "issue_create_or_get"
       IN CASE existing.kind = "row" ->
                 /\ call' = [call EXCEPT ![w] =
                        [op |-> op, pc |-> "done", args |-> a,
                         via |-> "read", ret |-> Ok(existing.row.id)]]
                 /\ returned' = returned \cup
                        {[ret |-> Ok(existing.row.id), tbl |-> "issues",
                          key |-> <<a.newspaper_id, a.issue_date>>]}
            [] existing.kind = "none" ->
                 /\ call' = [call EXCEPT ![w] =
                        [op |-> op, pc |-> "upsert", args |-> a]]
                 /\ UNCHANGED returned
            [] existing.kind = "error" ->
                 /\ call' = [call EXCEPT ![w] =
                        [op |-> op, pc |-> "done", args |-> a,
                         via |-> "read", ret |-> Raised("multiple rows")]]
                 /\ UNCHANGED returned
    /\ UNCHANGED <<newspapers, issues, pages, jobs, nextId, hist, resp>>

\* Second store call: the upsert on (newspaper_id, issue_date).
IssueCreateOrGetUpsert(w) ==
    /\ call[w].op = "issue_create_or_get"
    /\ call[w].pc = "upsert"
    /\ LET a == call[w].args
           res == execute_upsert(issues, ExcludeNone(IssueCreate(a)),
                                {"newspaper_id", "issue_date"},
                                IssueDefaults, IssueNullable, nextId)
           row == CHOOSE r \in res.data : TRUE
       IN /\ issues' = res.rows
          /\ nextId' = IF \E r \in res.rows : r.id = nextId
                       THEN nextId + 1 ELSE nextId
          /\ call' = [call EXCEPT ![w] =
                 [op |-> call[w].op, pc |-> "done", args |-> a,
                  via |-> "upsert",
                  ret |-> Ok(row.id)]]
          /\ returned' = returned \cup
                 {[ret |-> Ok(row.id), tbl |-> "issues",
                   key |-> <<a.newspaper_id, a.issue_date>>]}
    /\ UNCHANGED <<newspapers, pages, jobs, ncalls, hist, resp>>

(***************************************************************************)
(* PageRepository.create_or_get                                            *)
(***************************************************************************)
PageNumbers == {1, 2}
ImagePaths == {"a.png", "b.png"}

\* get_by_issue_and_number
get_by_issue_and_number(issue_id, page_number) ==
    maybe_single({r \in pages :
        r.issue_id = issue_id /\ r.page_number = page_number})

\* PageCreate(...) as a dict of Optional values
PageCreate(a) ==
    [issue_id |-> Some(a.issue_id), page_number |-> Some(a.page_number),
     image_path |-> Some(a.image_path),
     ingestion_status |-> Some(a.ingestion_status)]

PageCreateOrGetRead(w, a) ==
    /\ CanStart(w, MaxCalls)
    /\ ncalls' = ncalls + 1
    /\ LET existing == get_by_issue_and_number(a.issue_id, a.page_number)
           op == "page_create_or_get"
       IN CASE existing.kind = "row" ->
                 /\ call' = [call EXCEPT ![w] =
                        [op |-> op, pc |-> "done", args |-> a,
                         via |-> "read", ret |-> Ok(existing.row.id)]]
                 /\ returned' = returned \cup
                        {[ret |-> Ok(existing.row.id), tbl |-> "pages",
                          key |-> <<a.issue_id, a.page_number>>]}
            [] existing.kind = "none" ->
                 /\ call' = [call EXCEPT ![w] =
                        [op |-> op, pc |-> "upsert", args |-> a]]
                 /\ UNCHANGED returned
            [] existing.kind = "error" ->
                 /\ call' = [call EXCEPT ![w] =
                        [op |-> op, pc |-> "done", args |-> a,
                         via |-> "read", ret |-> Raised("multiple rows")]]
                 /\ UNCHANGED returned
    /\ UNCHANGED <<newspapers, issues, pages, jobs, nextId, hist, resp>>

PageCreateOrGetUpsert(w) ==
    /\ call[w].op = "page_create_or_get"
    /\ call[w].pc = "upsert"
    /\ LET a == call[w].args
           res == execute_upsert(pages, ExcludeNone(PageCreate(a)),
                                {"issue_id", "page_number"},
                                PageDefaults, PageNullable, nextId)
           row == CHOOSE r \in res.data : TRUE
       IN /\ pages' = res.rows
          /\ nextId' = IF \E r \in res.rows : r.id = nextId
                       THEN nextId + 1 ELSE nextId
          /\ call' = [call EXCEPT ![w] =
                 [op |-> call[w].op, pc |-> "done", args |-> a,
                  via |-> "upsert",
                  ret |-> Ok(row.id)]]
          /\ returned' = returned \cup
                 {[ret |-> Ok(row.id), tbl |-> "pages",
                   key |-> <<a.issue_id, a.page_number>>]}
    /\ UNCHANGED <<newspapers, issues, jobs, ncalls, hist, resp>>

(***************************************************************************)
(* Specification of the create-or-get pattern: workers call                *)
(* IssueRepository.create_or_get and PageRepository.create_or_get in any   *)
(* interleaving of their store calls, on an initially empty store.         *)
(***************************************************************************)
NoHist == [writes |-> 0]
NoResp == [status |-> 0]

InitEmpty ==
    /\ newspapers = {}
    /\ issues = {}
    /\ pages = {}
    /\ jobs = {}
    /\ nextId = 1
    /\ call = [w \in Workers |-> IdleCall]
    /\ returned = {}
    /\ ncalls = 0
    /\ hist = NoHist
    /\ resp = NoResp

IssueCreateOrGetStart ==
    \E w \in Workers, n \in NewspaperIds, d \in IssueDates,
       np \in NumPagesArgs, m \in MetadataArgs :
        IssueCreateOrGetRead(w,
            [newspaper_id |-> n, issue_date |-> d, num_pages |-> np,
             source_type |-> "upload", source_external_id |-> None,
             metadata |-> m])

IssueCreateOrGetWrite == \E w \in Workers : IssueCreateOrGetUpsert(w)

PageCreateOrGetStart ==
    \E w \in Workers, i \in {r.id : r \in issues}, p \in PageNumbers,
       ip \in ImagePaths :
        PageCreateOrGetRead(w,
            [issue_id |-> i, page_number |-> p, image_path |-> ip,
             ingestion_status |-> "pending"])

PageCreateOrGetWrite == \E w \in Workers : PageCreateOrGetUpsert(w)

NextCreateOrGet ==
    \/ IssueCreateOrGetStart
    \/ IssueCreateOrGetWrite
    \/ PageCreateOrGetStart
    \/ PageCreateOrGetWrite

SpecCreateOrGet == InitEmpty /\ [][NextCreateOrGet]_vars

\* C1: any two completed create_or_get calls with the same natural key
\* (issues: newspaper_id and issue_date; pages: issue_id and page_number),
\* sequential or interleaved between the existence read and the upsert,
\* returned a record with the same id.
C1_SameKeySameId ==
    \A r1, r2 \in returned :
        (r1.tbl = r2.tbl /\ r1.key = r2.key) => r1.ret.id = r2.ret.id

\* Two workers read "absent" for the same issue key, both went on to the
\* upsert, and both calls have returned.
C1_Witness ==
    \E w1, w2 \in Workers :
        /\ w1 # w2
        /\ call[w1].op = "issue_create_or_get" /\ call[w2].op = "issue_create_or_get"
        /\ call[w1].pc = "done" /\ call[w2].pc = "done"
        /\ call[w1].via = "upsert" /\ call[w2].via = "upsert"
        /\ call[w1].args.newspaper_id = call[w2].args.newspaper_id
        /\ call[w1].args.issue_date = call[w2].args.issue_date
        /\ call[w1].ret.status = "ok" /\ call[w2].ret.status = "ok"
        /\ call[w1].ret.id = call[w2].ret.id

\* C2: the issues table holds at most one row per (newspaper_id, issue_date)
\* and the pages table at most one row per (issue_id, page_number).
C2_UniqueNaturalKeys ==
    /\ \A r1, r2 \in issues :
        (r1.newspaper_id = r2.newspaper_id /\ r1.issue_date = r2.issue_date)
            => r1 = r2
    /\ \A r1, r2 \in pages :
        (r1.issue_id = r2.issue_id /\ r1.page_number = r2.page_number)
            => r1 = r2

\* Two page upserts for one (issue_id, page_number) were both in flight and
\* both have written.
C2_Witness ==
    \E w1, w2 \in Workers :
        /\ w1 # w2
        /\ call[w1].op = "page_create_or_get" /\ call[w2].op = "page_create_or_get"
        /\ call[w1].pc = "done" /\ call[w2].pc = "done"
        /\ call[w1].via = "upsert" /\ call[w2].via = "upsert"
        /\ call[w1].args.issue_id = call[w2].args.issue_id
        /\ call[w1].args.page_number = call[w2].args.page_number
        /\ Cardinality(pages) = 1

(***************************************************************************)
(* Table "ingest_jobs" and the generic writes of BaseRepository.           *)
(***************************************************************************)
\* IngestJob.progress default_factory
DefaultProgress ==
    [pages_total |-> 0, pages_processed |-> 0, pages_succeeded |-> 0,
     pages_failed |-> 0, current_stage |-> "initializing", errors |-> <<>>]

JobDefaults ==
    [id |-> 0, issue_id |-> None, status |-> "pending", idempotency_key |-> "",
     progress |-> DefaultProgress, error_message |-> None]
JobNullable == {"issue_id", "error_message"}

\* BaseRepository.get_by_id
get_by_id(rows, id) == maybe_single({r \in rows : r.id = id})

\* BaseRepository.create: insert of model_dump(exclude_none=True).  The result
\* is the rows after the insert and the rows the store returns.
create(rows, data, defaults, nullable, id) ==
    LET new == Merge([defaults EXCEPT !.id = id], ExcludeNone(data), nullable)
    IN [rows |-> rows \cup {new}, data |-> {new}]

\* An update that sends the None entries too: the store sets those columns
\* to null.
UpdateWritingNone(rows, id, data, nullable) ==
    LET hit == {r \in rows : r.id = id}
        upd == {[c \in DOMAIN r |->
                    IF c \notin DOMAIN data THEN r[c]
                    ELSE IF c \in nullable THEN data[c]
                    ELSE IF data[c] = None THEN r[c] ELSE data[c][1]] :
                 r \in hit}
    IN [rows |-> (rows \ hit) \cup upd, data |-> upd]

\* BaseRepository.update: the None entries of data are dropped and the rest is
\* written to the rows with this id.  An empty payload updates nothing and the
\* store returns no row.
update(rows, id, data, nullable) ==
    LET update_data == ExcludeNone(data)
        hit == {r \in rows : r.id = id}
        upd == {Merge(r, update_data, nullable) : r \in hit}
    IN IF DOMAIN update_data = {}
       THEN [rows |-> rows, data |-> {}]
       ELSE [rows |-> (rows \ hit) \cup upd, data |-> upd]

(***************************************************************************)
(* IngestJobRepository.get_by_key / create_with_key, used by a submitter   *)
(* as: job = get_by_key(token); if job is None: job = create_with_key(token)*)
(***************************************************************************)
Tokens == {"k1", "k2"}

\* get_by_key
get_by_key(idempotency_key) ==
    maybe_single({j \in jobs : j.idempotency_key = idempotency_key})

\* IngestJobCreate(...) as a dict of Optional values
IngestJobCreate(idempotency_key, status) ==
    [status |-> Some(status), idempotency_key |-> Some(idempotency_key)]

\* create_with_key.  The insert is a plain insert: when a job with this key
\* is already stored, a store that enforces the key's uniqueness rejects the
\* insert (the client raises) and a store that does not adds a second row.
create_with_key(idempotency_key, status, enforced) ==
    IF enforced /\ \E j \in jobs : j.idempotency_key = idempotency_key
    THEN [rows |-> jobs, data |-> {}]
    ELSE create(jobs, IngestJobCreate(idempotency_key, status),
                JobDefaults, JobNullable, nextId)

\* The submitter's first store call: get_by_key.
SubmitGetByKey(w, token) ==
    /\ CanStart(w, MaxSubmits)
    /\ ncalls' = ncalls + 1
    /\ LET existing == get_by_key(token)
           op == "submit"
       IN CASE existing.kind = "row" ->
                 /\ call' = [call EXCEPT ![w] =
                        [op |-> op, pc |-> "done", args |-> [token |-> token],
                         via |-> "read", ret |-> Ok(existing.row.id)]]
                 /\ returned' = returned \cup
                        {[ret |-> Ok(existing.row.id), tbl |-> "ingest_jobs",
                          key |-> token]}
            [] existing.kind = "none" ->
                 /\ call' = [call EXCEPT ![w] =
                        [op |-> op, pc |-> "create",
                         args |-> [token |-> token]]]
                 /\ UNCHANGED returned
            [] existing.kind = "error" ->
                 /\ call' = [call EXCEPT ![w] =
                        [op |-> op, pc |-> "done", args |-> [token |-> token],
                         via |-> "read", ret |-> Raised("multiple rows")]]
                 /\ returned' = returned \cup
                        {[ret |-> Raised("multiple rows"),
                          tbl |-> "ingest_jobs",
                          key |-> token]}
    /\ UNCHANGED <<newspapers, issues, pages, jobs, nextId, hist, resp>>

\* The submitter's second store call: create_with_key(token), status "pending".
SubmitCreateWithKey(w, enforced) ==
    /\ call[w].op = "submit"
    /\ call[w].pc = "create"
    /\ LET token == call[w].args.token
           res == create_with_key(token, "pending", enforced)
           ret == IF res.data = {} THEN Raised("duplicate key")
                  ELSE Ok((CHOOSE r \in res.data : TRUE).id)
       IN /\ jobs' = res.rows
          /\ nextId' = IF \E r \in res.rows : r.id = nextId
                       THEN nextId + 1 ELSE nextId
          /\ call' = [call EXCEPT ![w] =
                 [op |-> "submit", pc |-> "done", args |-> call[w].args,
                  via |-> "create", ret |-> ret]]
          /\ returned' = returned \cup
                 {[ret |-> ret, tbl |-> "ingest_jobs", key |-> token]}
    /\ UNCHANGED <<newspapers, issues, pages, ncalls, hist, resp>>

SubmitStart == \E w \in Workers, t \in Tokens : SubmitGetByKey(w, t)

SubmitCreate == \E w \in Workers, enforced \in BOOLEAN : SubmitCreateWithKey(w, enforced)

NextSubmit == SubmitStart \/ SubmitCreate

SpecSubmit == InitEmpty /\ [][NextSubmit]_vars

\* C3: when every submitter follows "get_by_key(token); use the job if one
\* is returned, otherwise create_with_key(token)", the ingest_jobs table never
\* holds two jobs with one idempotency_key and every submission of a token ends
\* with the same job id.
C3_SubmitIdempotent ==
    /\ \A j1, j2 \in jobs : j1.idempotency_key = j2.idempotency_key => j1 = j2
    /\ \A r1, r2 \in returned :
        (r1.tbl = "ingest_jobs" /\ r2.tbl = "ingest_jobs" /\ r1.key = r2.key)
            => (r1.ret.status = "ok" /\ r2.ret.status = "ok" /\ r1.ret.id = r2.ret.id)

(***************************************************************************)
(* IngestJobRepository.update_job                                          *)
(***************************************************************************)
Statuses == {"pending", "processing", "completed", "failed"}
Terminal == {"completed", "failed"}
IssueIdArgs == {7, 8}
StatusArgs == {"processing", "completed"}
ErrorMessageArgs == {"", "boom"}
JobIdArgs == {1}

\* str(issue_id) of a UUID, and the uuid column reading that text back
Str(u) == <<"str", u>>
ParseUuid(s) == s[2]

\* The ingest_jobs table's typed columns: issue_id is a uuid column.
CastJobPayload(d) ==
    [k \in DOMAIN d |->
        IF k = "issue_id" /\ d[k] # None THEN Some(ParseUuid(d[k][1])) ELSE d[k]]

\* update_data built with truthiness tests (if status: ...) instead of
\* "is not None".
UpdateJobDataTruthy(a) ==
    LET all == [issue_id |-> IF a.issue_id = None THEN None
                             ELSE Some(Str(a.issue_id[1])),
                status |-> a.status, progress |-> a.progress,
                error_message |-> a.error_message]
        falsy(k) == \/ all[k] = None
                    \/ (k = "progress" /\ DOMAIN all[k][1] = {})
                    \/ (k \in {"status", "error_message"} /\ all[k][1] = "")
    IN [k \in {x \in DOMAIN all : ~falsy(x)} |-> all[k]]

\* update_data that also marks the job as processing whenever progress is
\* written.
UpdateJobDataMarkingProcessing(a) ==
    LET all == [issue_id |-> IF a.issue_id = None THEN None
                             ELSE Some(Str(a.issue_id[1])),
                status |-> IF a.status = None /\ a.progress # None
                           THEN Some("processing") ELSE a.status,
                progress |-> a.progress,
                error_message |-> a.error_message]
    IN [k \in {x \in DOMAIN all : all[x] # None} |-> all[k]]

\* update_job's update_data: the arguments that are not None, issue_id as text.
UpdateJobData(a) ==
    LET all == [issue_id |-> IF a.issue_id = None THEN None
                             ELSE Some(Str(a.issue_id[1])),
                status |-> a.status, progress |-> a.progress,
                error_message |-> a.error_message]
    IN [k \in {x \in DOMAIN all : all[x] # None} |-> all[k]]

\* update_job: self.update(job_id, update_data) on table ingest_jobs.
update_job(job_id, a) ==
    update(jobs, job_id, CastJobPayload(UpdateJobData(a)), JobNullable)

\* The ghost fields before/after of a finished call: the stored row the call
\* found and the row the store returned.
RowOf(m) == IF m.kind = "row" THEN Some(m.row) ELSE None
FirstOf(rows) == IF rows = {} THEN None ELSE Some(CHOOSE r \in rows : TRUE)

UpdateJobCall(w, job_id, a) ==
    /\ CanStart(w, MaxUpdates)
    /\ ncalls' = ncalls + 1
    /\ LET res == update_job(job_id, a)
       IN /\ jobs' = res.rows
          /\ call' = [call EXCEPT ![w] =
                 [op |-> "update_job", pc |-> "done", args |-> a,
                  ret |-> IF res.data = {} THEN Raised("Failed to update record")
                          ELSE Ok(job_id),
                  job_id |-> job_id,
                  before |-> RowOf(get_by_id(jobs, job_id)),
                  after |-> FirstOf(res.data)]]
    /\ UNCHANGED <<newspapers, issues, pages, nextId, returned, hist, resp>>

\* create_with_key called on its own (one store call).
CreateWithKeyCall(w, token, status, enforced) ==
    /\ CanStart(w, MaxUpdates)
    /\ ncalls' = ncalls + 1
    /\ LET res == create_with_key(token, status, enforced)
       IN /\ jobs' = res.rows
          /\ nextId' = IF \E r \in res.rows : r.id = nextId
                       THEN nextId + 1 ELSE nextId
          /\ call' = [call EXCEPT ![w] =
                 [op |-> "create_with_key", pc |-> "done",
                  args |-> [status |-> status, token |-> token],
                  ret |-> IF res.data = {} THEN Raised("duplicate key")
                          ELSE Ok((CHOOSE r \in res.data : TRUE).id),
                          before |-> None,
                  after |-> FirstOf(res.data)]]
    /\ UNCHANGED <<newspapers, issues, pages, returned, hist, resp>>

\* A progress object a caller may pass to update_job.
SomeProgress ==
    [pages_total |-> 5, pages_processed |-> 2, pages_succeeded |-> 1,
     pages_failed |-> 1, current_stage |-> "ocr", errors |-> <<"e0">>]
EmptyDict == [k \in {} |-> 0]
ProgressArgs == {EmptyDict, SomeProgress}

Opt(S) == {None} \cup {Some(x) : x \in S}

UpdateJobStep ==
    \E job_id \in JobIdArgs, i \in Opt(IssueIdArgs), st \in Opt(StatusArgs),
       pr \in Opt(ProgressArgs), em \in Opt(ErrorMessageArgs) :
        UpdateJobCall("w1", job_id,
            [issue_id |-> i, status |-> st, progress |-> pr, error_message |-> em])

CreateWithKeyStep ==
    \E st \in {"pending", "completed"}, enforced \in BOOLEAN :
        CreateWithKeyCall("w1", "k2", st, enforced)

NextUpdateJob == CreateWithKeyStep \/ UpdateJobStep

\* The store after create_with_key("k1") on an empty store.
CreatedJob ==
    Merge([JobDefaults EXCEPT !.id = 1],
          ExcludeNone(IngestJobCreate("k1", "pending")), JobNullable)

InitOneJob ==
    /\ newspapers = {}
    /\ issues = {}
    /\ pages = {}
    /\ jobs = {CreatedJob}
    /\ nextId = 2
    /\ call = [w \in Workers |-> IdleCall]
    /\ returned = {}
    /\ ncalls = 0
    /\ hist = NoHist
    /\ resp = NoResp

SpecUpdateJob == InitOneJob /\ [][NextUpdateJob]_vars

JobFields == {"issue_id", "status", "progress", "error_message"}

\* The value column c holds after value v was written to it.
Stored(c, v) == IF c \in JobNullable THEN Some(v) ELSE v

\* C8: update_job is a partial update: of issue_id, status, progress and
\* error_message exactly the supplied (not None) fields are written with the
\* supplied values; every field not supplied, and every other column, keeps
\* the value it had before the call.
C8_PartialUpdate ==
    \A w \in Workers :
        (call[w].op = "update_job" /\ call[w].before # None) =>
            LET b == call[w].before[1]
                a == call[w].args
                now == {j \in jobs : j.id = b.id}
            IN /\ Cardinality(now) = 1
               /\ \A j \in now :
                    /\ \A c \in JobFields :
                         j[c] = IF a[c] # None THEN Stored(c, a[c][1]) ELSE b[c]
                    /\ j.idempotency_key = b.idempotency_key

\* update_job wrote an empty error_message and an empty progress over
\* non-empty ones, left status alone and kept the issue_id set by an earlier
\* call.
C8_Witness ==
    /\ call["w1"].op = "update_job"
    /\ call["w1"].before # None
    /\ call["w1"].args.error_message = Some("")
    /\ call["w1"].args.progress = Some(EmptyDict)
    /\ call["w1"].args.status = None
    /\ call["w1"].args.issue_id = None
    /\ call["w1"].before[1].error_message = Some("boom")
    /\ call["w1"].before[1].issue_id = Some(7)
    /\ call["w1"].before[1].status = "processing"
    /\ call["w1"].after # None
    /\ call["w1"].after[1].issue_id = Some(7)

\* C9: a job created through create_with_key (default status) starts in
\* pending, and once a job's status is completed or failed no update_job call
\* moves it to a different status.
C9_TerminalIsFinal ==
    \A w \in Workers :
        /\ (call[w].op = "create_with_key" /\ call[w].after # None
                /\ call[w].args.status = "pending")
            => call[w].after[1].status = "pending"
        /\ (call[w].op = "update_job" /\ call[w].before # None
                /\ call[w].after # None
                /\ call[w].before[1].status \in Terminal)
            => call[w].after[1].status = call[w].before[1].status

(***************************************************************************)
(* IngestJobRepository.increment_progress: get_by_id, then update_job with *)
(* the progress dict computed from the job that was read.                  *)
(***************************************************************************)
MaxErrors == 10

\* (pages_processed, pages_total, current_stage) as callers pass them
CounterArgs == {<<1, 3, "processing">>, <<2, 4, "ocr">>}
ErrorArgs == {None, Some(""), Some("e1"), Some("e2")}

\* dict.get(k, d) and d[k] = v
Get(p, k, d) == IF k \in DOMAIN p THEN p[k] ELSE d
Put(p, k, v) == [x \in DOMAIN p \cup {k} |-> IF x = k THEN v ELSE p[x]]

\* s[-n:]
LastN(s, n) == IF Len(s) <= n THEN s ELSE SubSeq(s, Len(s) - n + 1, Len(s))

\* Python truthiness of the Optional[str] argument error: None and "" are falsy.
Truthy(error) == error # None /\ error[1] # ""

\* job.progress or {...}: an empty dict is falsy and gives the fresh dict.
ProgressOrFresh(progress, pages_total) ==
    IF DOMAIN progress = {}
    THEN [pages_total |-> pages_total, pages_processed |-> 0,
          pages_succeeded |-> 0, pages_failed |-> 0,
          current_stage |-> "initializing", errors |-> <<>>]
    ELSE progress

\* A progress update whose failure branch appends the error but does not
\* count the page.
NewProgressUncounted(stored, a) ==
    LET p0 == ProgressOrFresh(stored, a.pages_total)
        p1 == Put(Put(Put(p0, "pages_processed", a.pages_processed),
                      "pages_total", a.pages_total),
                  "current_stage", a.current_stage)
    IN IF Truthy(a.error)
       THEN Put(p1, "errors",
                LastN(Append(Get(p1, "errors", <<>>), a.error[1]), MaxErrors))
       ELSE Put(p1, "pages_succeeded", Get(p1, "pages_succeeded", 0) + 1)

\* A progress update that adds the call's pages_processed to the stored count
\* and keeps a stored pages_total.
NewProgressAdding(stored, a) ==
    LET p0 == ProgressOrFresh(stored, a.pages_total)
        p1 == Put(Put(p0, "pages_processed",
                      Get(p0, "pages_processed", 0) + a.pages_processed),
                  "current_stage", a.current_stage)
    IN IF Truthy(a.error)
       THEN Put(Put(p1, "pages_failed", Get(p1, "pages_failed", 0) + 1),
                "errors",
                LastN(Append(Get(p1, "errors", <<>>), a.error[1]), MaxErrors))
       ELSE Put(p1, "pages_succeeded", Get(p1, "pages_succeeded", 0) + 1)

\* A progress update that starts from the fresh dict on every call, whatever
\* is stored.
NewProgressResetting(stored, a) ==
    LET p0 == ProgressOrFresh(EmptyDict, a.pages_total)
        p1 == Put(Put(Put(p0, "pages_processed", a.pages_processed),
                      "pages_total", a.pages_total),
                  "current_stage", a.current_stage)
    IN IF Truthy(a.error)
       THEN Put(Put(p1, "pages_failed", Get(p1, "pages_failed", 0) + 1),
                "errors",
                LastN(Append(Get(p1, "errors", <<>>), a.error[1]), MaxErrors))
       ELSE Put(p1, "pages_succeeded", Get(p1, "pages_succeeded", 0) + 1)

\* The progress dict increment_progress writes, from the stored progress it read.
NewProgress(stored, a) ==
    LET p0 == ProgressOrFresh(stored, a.pages_total)
        p1 == Put(Put(Put(p0, "pages_processed", a.pages_processed),
                      "pages_total", a.pages_total),
                  "current_stage", a.current_stage)
    IN IF Truthy(a.error)
       THEN Put(Put(p1, "pages_failed", Get(p1, "pages_failed", 0) + 1),
                "errors",
                LastN(Append(Get(p1, "errors", <<>>), a.error[1]), MaxErrors))
       ELSE Put(p1, "pages_succeeded", Get(p1, "pages_succeeded", 0) + 1)

\* A merge done on the row as stored at write time (a store-side increment).
StoredAtWrite(read, job_id) ==
    LET now == {j \in jobs : j.id = job_id}
    IN IF now = {} THEN read ELSE CHOOSE j \in now : TRUE

\* The job whose progress is merged: the one get_by_id returned, whatever has
\* been written to the store since.
JobToMerge(read, job_id) == read

\* First store call: job = self.get_by_id(job_id).
IncrementProgressRead(w, job_id, a, max) ==
    /\ CanStart(w, max)
    /\ ncalls' = ncalls + 1
    /\ LET job == get_by_id(jobs, job_id)
       IN IF job.kind = "row"
          THEN /\ call' = [call EXCEPT ![w] =
                      [op |-> "increment_progress", pc |-> "write",
                       args |-> a, job_id |-> job_id, job |-> job.row,
                       readAt |-> hist.writes]]
               /\ hist' = [hist EXCEPT !.overlap =
                      @ \/ \E o \in Workers \ {w} : call[o].pc = "write"]
          ELSE /\ call' = [call EXCEPT ![w] =
                      [op |-> "increment_progress", pc |-> "done",
                       args |-> a, via |-> "read",
                       ret |-> Raised("Job not found"),
                       job_id |-> job_id]]
               /\ UNCHANGED hist
    /\ UNCHANGED <<newspapers, issues, pages, jobs, nextId, returned, resp>>

\* Second store call: self.update_job(job_id, progress=progress).
IncrementProgressWrite(w) ==
    /\ call[w].op = "increment_progress"
    /\ call[w].pc = "write"
    /\ LET c == call[w]
           progress == NewProgress(JobToMerge(c.job, c.job_id).progress, c.args)
           res == update_job(c.job_id,
                      [issue_id |-> None, status |-> None,
                       progress |-> Some(progress), error_message |-> None])
       IN /\ jobs' = res.rows
          /\ call' = [call EXCEPT ![w] =
                 [op |-> c.op, pc |-> "done", args |-> c.args, via |-> "write",
                  ret |-> IF res.data = {} THEN Raised("Failed to update record")
                          ELSE Ok(c.job_id), job_id |-> c.job_id,
                          job |-> c.job,
                  readAt |-> c.readAt, written |-> progress,
                  wroteAt |-> hist.writes + 1]]
          /\ hist' = IF res.data = {} THEN hist
                     ELSE [hist EXCEPT
                              !.writes = @ + 1,
                              !.completed = @ + 1,
                              !.supplied = IF c.args.error = None THEN @
                                           ELSE Append(@, c.args.error[1])]
    /\ UNCHANGED <<newspapers, issues, pages, nextId, returned, ncalls, resp>>

\* pages_succeeded + pages_failed of a progress dict
Outcomes(p) == Get(p, "pages_succeeded", 0) + Get(p, "pages_failed", 0)

\* Progress dicts a job may hold when the increments start: the one of a new
\* job, an empty one and one with counts and an error (set through update_job).
InitialProgress == {DefaultProgress, EmptyDict, SomeProgress}

\* hist: writes = number of progress writes so far; overlap = some call read
\* the job while another call was between its read and its write; completed =
\* number of completed increment_progress calls; supplied = the errors list at
\* the start followed by the error strings the completed calls supplied;
\* outcomes0 = pages_succeeded + pages_failed at the start.
InitProgress ==
    /\ newspapers = {}
    /\ issues = {}
    /\ pages = {}
    /\ \E p \in InitialProgress :
        /\ jobs = {[CreatedJob EXCEPT
                       !.progress = p,
                       !.status = IF p = DefaultProgress THEN "pending"
                                  ELSE "processing"]}
        /\ hist = [writes |-> 0, overlap |-> FALSE, completed |-> 0,
                   supplied |-> Get(p, "errors", <<>>), outcomes0 |-> Outcomes(p)]
    /\ nextId = 2
    /\ call = [w \in Workers |-> IdleCall]
    /\ returned = {}
    /\ ncalls = 0
    /\ resp = NoResp

IncrementStart ==
    \E w \in Workers, job_id \in JobIdArgs, c \in CounterArgs, e \in ErrorArgs :
        IncrementProgressRead(w, job_id,
            [pages_total |-> c[2], pages_processed |-> c[1],
             current_stage |-> c[3], error |-> e], MaxIncrements)

IncrementWrite == \E w \in Workers : IncrementProgressWrite(w)

NextProgress == IncrementStart \/ IncrementWrite

SpecProgress == InitProgress /\ [][NextProgress]_vars

TargetJob == CHOOSE j \in jobs : j.id = 1

InFlight == \E w \in Workers : call[w].pc = "write"

Completed(w) ==
    /\ call[w].op = "increment_progress"
    /\ call[w].pc = "done"
    /\ call[w].ret.status = "ok"

\* C4: every increment_progress call that completes increments exactly one of
\* the two outcome counters by exactly 1 and leaves the other unchanged:
\* pages_succeeded when no error is given, pages_failed when an error is given
\* (any error string, the empty string included), and then the error string is
\* also appended to the errors list.
C4_OneCounterPerCall ==
    \A w \in Workers :
        Completed(w) =>
            LET p0 == call[w].job.progress
                p1 == call[w].written
                e == call[w].args.error
            IN IF e = None
               THEN /\ Get(p1, "pages_succeeded", 0) = Get(p0, "pages_succeeded", 0) + 1
                    /\ Get(p1, "pages_failed", 0) = Get(p0, "pages_failed", 0)
               ELSE /\ Get(p1, "pages_failed", 0) = Get(p0, "pages_failed", 0) + 1
                    /\ Get(p1, "pages_succeeded", 0) = Get(p0, "pages_succeeded", 0)
                    /\ Get(p1, "errors", <<>>) # <<>>
                    /\ Get(p1, "errors", <<>>)[Len(Get(p1, "errors", <<>>))] = e[1]

\* C5: after any sequence of (serialized) increment_progress calls on a job
\* the stored errors list has at most 10 entries and equals the last
\* min(10, k) error strings supplied, in the order supplied.
C5_ErrorsAreLastTen ==
    (~hist.overlap /\ ~InFlight) =>
        LET errors == Get(TargetJob.progress, "errors", <<>>)
        IN /\ Len(errors) <= MaxErrors
           /\ errors = LastN(hist.supplied, MaxErrors)

\* C6: when two increment_progress calls on one job both read the job before
\* either writes and both complete without error, pages_succeeded +
\* pages_failed has grown by only 1 and the stored progress is exactly the one
\* written last.
C6_LostUpdate ==
    \A w1, w2 \in Workers :
        (/\ w1 # w2
         /\ Completed(w1) /\ Completed(w2)
         /\ call[w1].job_id = call[w2].job_id
         /\ call[w1].readAt = call[w2].readAt
         /\ call[w1].wroteAt < call[w2].wroteAt
         /\ hist.writes = call[w2].wroteAt)
        => /\ TargetJob.progress = call[w2].written
           /\ Outcomes(TargetJob.progress) = Outcomes(call[w1].job.progress) + 1

\* Both calls read the same stored progress, the first to write recorded an
\* error, the second a success; the stored errors list is the one read.
C6_Witness ==
    \E w1, w2 \in Workers :
        /\ w1 # w2
        /\ Completed(w1) /\ Completed(w2)
        /\ call[w1].readAt = call[w2].readAt
        /\ call[w1].wroteAt < call[w2].wroteAt
        /\ hist.writes = call[w2].wroteAt
        /\ call[w1].args.error = Some("e1")
        /\ call[w2].args.error = None
        /\ Get(TargetJob.progress, "errors", <<>>)
               = Get(call[w1].job.progress, "errors", <<>>)
        /\ Get(call[w1].written, "errors", <<>>)
               # Get(call[w1].job.progress, "errors", <<>>)

\* C7: when the increment_progress calls on a job are serialized and nothing
\* else writes the job's progress, no count is lost: after n completed calls
\* pages_succeeded + pages_failed is its value before the first call plus n.
C7_SerializedNoLoss ==
    (~hist.overlap /\ ~InFlight) =>
        Outcomes(TargetJob.progress) = hist.outcomes0 + hist.completed

\* Three serialized calls have completed, a failure among them, on a job that
\* started with counts.
C7_Witness ==
    /\ ~hist.overlap
    /\ ~InFlight
    /\ hist.completed = 3
    /\ hist.outcomes0 = 2
    /\ Get(TargetJob.progress, "pages_failed", 0) = 2
    /\ Get(TargetJob.progress, "pages_succeeded", 0) = 3

(***************************************************************************)
(* One worker calling increment_progress many times with non-empty errors: *)
(* long enough for the errors list to overflow.                            *)
(***************************************************************************)
RingStart ==
    \E e \in {None, Some("e1"), Some("e2")} :
        IncrementProgressRead("w1", 1,
            [pages_total |-> 3, pages_processed |-> 1,
             current_stage |-> "processing", error |-> e], MaxRingCalls)

RingWrite == IncrementProgressWrite("w1")

NextRing == RingStart \/ RingWrite

SpecRing == InitProgress /\ [][NextRing]_vars

\* With non-empty error strings only, the stored errors are the last 10 supplied.
ErrorsRingNonEmpty ==
    ~InFlight =>
        LET errors == Get(TargetJob.progress, "errors", <<>>)
        IN /\ Len(errors) <= MaxErrors
           /\ errors = LastN(hist.supplied, MaxErrors)

ErrorsRingOverflowed ==
    /\ ~InFlight
    /\ Len(hist.supplied) = MaxErrors + 2
    /\ Get(TargetJob.progress, "errors", <<>>)[1] # hist.supplied[1]

(***************************************************************************)
(* Browse routes: GET /api/issues                                          *)
(***************************************************************************)
LimitMin == 1
LimitMax == 100
OffsetMin == 0

Min(a, b) == IF a <= b THEN a ELSE b

\* All orders in which the store may hand out the rows of S.
Orderings(S) ==
    {f \in [1..Cardinality(S) -> S] :
        \A i, j \in 1..Cardinality(S) : i # j => f[i] # f[j]}

\* .limit(limit).offset(offset) on rows in the order seq
Slice(seq, limit, offset) ==
    SubSeq(seq, offset + 1, Min(Len(seq), offset + limit))

\* BaseRepository.list_all: no ORDER BY, the store picks the order.
list_all(order, limit, offset) == Slice(order, limit, offset)

\* IssueRepository.list_by_newspaper with order_desc=True
list_by_newspaper(newspaper_id, limit, offset) ==
    LET match == {r \in issues : r.newspaper_id = newspaper_id}
        sorted == CHOOSE f \in Orderings(match) :
                    \A i, j \in 1..Cardinality(match) :
                        i < j => f[i].issue_date >= f[j].issue_date
    IN Slice(sorted, limit, offset)

\* A handler that asks the repository for exactly limit rows.
FetchLimitExact(limit) == limit

\* limit=limit + 1: one row more than requested
FetchLimit(limit) == limit + 1

\* A list handler that reports the number of rows it fetched as the total.
ListIssuesTotalFetched(limit, offset, newspaper_id, order) ==
    LET found == IF newspaper_id # None
                 THEN list_by_newspaper(newspaper_id[1], FetchLimit(limit), offset)
                 ELSE list_all(order, FetchLimit(limit), offset)
        has_more == Len(found) > limit
        items == SubSeq(found, 1, Min(limit, Len(found)))
    IN [newspaper_id |-> newspaper_id, status |-> 200, limit |-> limit,
        offset |-> offset,
        has_more |-> has_more, items |-> items,
        total |-> Len(found), asked |-> FetchLimit(limit)]

\* A list handler that computes the total from the requested limit instead of
\* the number of items returned.
ListIssuesTotalFromLimit(limit, offset, newspaper_id, order) ==
    LET found == IF newspaper_id # None
                 THEN list_by_newspaper(newspaper_id[1], FetchLimit(limit), offset)
                 ELSE list_all(order, FetchLimit(limit), offset)
        has_more == Len(found) > limit
        items == SubSeq(found, 1, Min(limit, Len(found)))
        total == offset + limit + (IF has_more THEN 1 ELSE 0)
    IN [newspaper_id |-> newspaper_id, status |-> 200, limit |-> limit,
        offset |-> offset,
        has_more |-> has_more, items |-> items,
        total |-> total, asked |-> FetchLimit(limit)]

\* list_issues: the response, with the limit passed to the repository (asked).
list_issues(limit, offset, newspaper_id, order) ==
    LET found == IF newspaper_id # None
                 THEN list_by_newspaper(newspaper_id[1], FetchLimit(limit), offset)
                 ELSE list_all(order, FetchLimit(limit), offset)
        has_more == Len(found) > limit
        items == SubSeq(found, 1, Min(limit, Len(found)))
        total == offset + Len(items) + (IF has_more THEN 1 ELSE 0)
    IN [newspaper_id |-> newspaper_id, status |-> 200, limit |-> limit,
        offset |-> offset,
        has_more |-> has_more, items |-> items,
        total |-> total, asked |-> FetchLimit(limit)]

\* GET /api/issues?limit&offset&newspaper_id; Query(ge=, le=) rejects with 422.
GetIssues(limit, offset, newspaper_id) ==
    /\ IF limit >= LimitMin /\ limit <= LimitMax /\ offset >= OffsetMin
       THEN \E order \in Orderings(issues) :
                resp' = list_issues(limit, offset, newspaper_id, order)
       ELSE resp' = [status |-> 422]
    /\ UNCHANGED <<newspapers, issues, pages, jobs, nextId, call, returned,
                   ncalls, hist>>

\* Issues the store may hold: one per natural key, inserted by create_or_get.
BrowseCandidates ==
    {Merge([IssueDefaults EXCEPT !.id = k[1]],
           [newspaper_id |-> k[2], issue_date |-> k[3], num_pages |-> 4],
           IssueNullable) :
        k \in {<<1, "n1", 1>>, <<2, "n1", 2>>, <<3, "n2", 2>>, <<4, "n1", 3>>}}

InitBrowse ==
    /\ newspapers = {}
    /\ issues \in SUBSET BrowseCandidates
    /\ pages = {}
    /\ jobs = {}
    /\ nextId = 5
    /\ call = [w \in Workers |-> IdleCall]
    /\ returned = {}
    /\ ncalls = 0
    /\ hist = NoHist
    /\ resp = NoResp

ListIssuesRequest ==
    \E limit \in 0..MaxLimit, offset \in 0..MaxOffset,
       newspaper_id \in Opt({"n1", "n2"}) :
        GetIssues(limit, offset, newspaper_id)

NextBrowse == ListIssuesRequest

SpecBrowse == InitBrowse /\ [][NextBrowse]_vars

\* Rows available from the response's offset on, for its filter.
Available ==
    LET match == IF resp.newspaper_id # None
                 THEN {r \in issues : r.newspaper_id = resp.newspaper_id[1]}
                 ELSE issues
    IN IF Cardinality(match) > resp.offset
       THEN Cardinality(match) - resp.offset ELSE 0

\* C10: for GET /api/issues with limit L and offset O, where K rows are
\* available from offset O on, the handler asks the repository for L+1 rows,
\* has_more is true exactly when K > L, and min(K, L) items are returned.
C10_Pagination ==
    resp.status = 200 =>
        /\ resp.asked = resp.limit + 1
        /\ resp.has_more = (Available > resp.limit)
        /\ Len(resp.items) = Min(Available, resp.limit)

\* limit 3 against 4 available issues: has_more and exactly 3 items.
C10_Witness ==
    /\ resp.status = 200
    /\ resp.limit = 3
    /\ resp.offset = 0
    /\ Available = 4
    /\ resp.has_more
    /\ Len(resp.items) = 3

(***************************************************************************)
(* Browse routes: GET /api/issues, GET /api/issues/{id}, GET /api/pages/{id}*)
(* with their response models.                                             *)
(***************************************************************************)
NewspaperDefaults ==
    [id |-> "", source_type |-> "upload", name |-> "", city |-> None,
     country |-> None, start_year |-> None, end_year |-> None,
     description |-> None]
NewspaperNullable ==
    {"city", "country", "start_year", "end_year", "description"}

\* The tables of the browse context and those of the retrieval context.
BrowseTables == {"newspapers", "issues", "pages"}

\* A pydantic response model built from a stored row keeps the fields the
\* response model declares and drops the others.
Project(row, fields) == [c \in fields |-> row[c]]

\* A page response that leaves the OCR text out.
PageResponseNoText(page) ==
    [Project(page, {"id", "issue_id", "page_number", "image_path", "ocr_text",
                    "ocr_confidence", "ocr_provider", "ingestion_status"})
        EXCEPT !.ocr_text = None]

\* PageResponse.model_validate(page)
PageResponse(page) ==
    Project(page, {"id", "issue_id", "page_number", "image_path", "ocr_text",
                   "ocr_confidence", "ocr_provider", "ingestion_status"})

\* NewspaperResponse.model_validate(newspaper)
NewspaperResponse(newspaper) ==
    Project(newspaper, {"id", "name", "city", "country", "start_year",
                        "end_year", "description", "source_type"})

\* IssueResponse.model_validate(issue): newspaper and pages stay None
IssueResponse(issue) ==
    [c \in DOMAIN issue \cup {"newspaper", "pages"} |->
        IF c \in DOMAIN issue THEN issue[c] ELSE None]

\* PageRepository.list_by_issue with order_by_page_number=True
list_by_issue(issue_id) ==
    LET match == {r \in pages : r.issue_id = issue_id}
    IN CHOOSE f \in Orderings(match) :
           \A i, j \in 1..Cardinality(match) :
               i < j => f[i].page_number <= f[j].page_number

\* HTTPException(status_code, detail); detail is the sequence of its words.
HTTPException(status_code, detail, reads) ==
    [status |-> status_code, detail |-> detail, reads |-> reads]

\* The words of needle occur in detail, in a row.
ContainsWords(detail, needle) ==
    \E i \in 0..Len(detail) :
        /\ i + Len(needle) <= Len(detail)
        /\ \A k \in 1..Len(needle) : detail[i + k] = needle[k]

\* A detail handler that reports a missing newspaper as a missing issue.
IssueDetailMissingNewspaperAs404(issue_id) ==
    LET issue == get_by_id(issues, issue_id)
        newspaper == get_by_id(newspapers, issue.row.newspaper_id)
    IN IF issue.kind # "row" \/ newspaper.kind # "row"
       THEN HTTPException(404, <<"Issue", "not", "found">>, {"issues"})
       ELSE [status |-> 200,
             reads |-> {"issues", "newspapers", "pages"},
             body |-> [c \in DOMAIN issue.row \cup {"newspaper", "pages"} |->
                         CASE c = "newspaper" -> NewspaperResponse(newspaper.row)
                           [] c = "pages" ->
                                [i \in 1..Len(list_by_issue(issue_id)) |->
                                    PageResponse(list_by_issue(issue_id)[i])]
                           [] OTHER -> issue.row[c]]]

\* get_issue_detail: the issue, then its newspaper, then its pages.  A read
\* that makes the client raise is answered with 500 by the framework.
get_issue_detail(issue_id) ==
    LET issue == get_by_id(issues, issue_id)
    IN IF issue.kind = "none"
       THEN HTTPException(404, <<"Issue", "not", "found">>, {"issues"})
       ELSE IF issue.kind = "error"
       THEN HTTPException(500, <<"Internal", "Server", "Error">>, {"issues"})
       ELSE LET newspaper == get_by_id(newspapers, issue.row.newspaper_id)
            IN IF newspaper.kind = "none"
               THEN HTTPException(500,
                        <<"Associated", "newspaper", "not", "found">>,
                        {"issues", "newspapers"})
               ELSE IF newspaper.kind = "error"
               THEN HTTPException(500, <<"Internal", "Server", "Error">>,
                        {"issues", "newspapers"})
               ELSE LET found == list_by_issue(issue_id)
                    IN [status |-> 200,
                        reads |-> {"issues", "newspapers", "pages"},
                        body |->
                          [c \in DOMAIN issue.row \cup {"newspaper", "pages"} |->
                             CASE c = "newspaper" ->
                                    NewspaperResponse(newspaper.row)
                               [] c = "pages" ->
                                    [i \in 1..Len(found) |-> PageResponse(found[i])]
                               [] OTHER -> issue.row[c]]]

\* get_page_detail
get_page_detail(page_id) ==
    LET page == get_by_id(pages, page_id)
    IN IF page.kind = "none"
       THEN HTTPException(404, <<"Page", "not", "found">>, {"pages"})
       ELSE IF page.kind = "error"
       THEN HTTPException(500, <<"Internal", "Server", "Error">>, {"pages"})
       ELSE [status |-> 200, reads |-> {"pages"},
             body |-> PageResponse(page.row)]

(***************************************************************************)
(* Specification of the browse routes: any sequence of requests to the     *)
(* three endpoints against a store that holds newspapers, issues, pages    *)
(* and possibly an ingest job.  resp holds the last request, the response  *)
(* and the tables the handler queried.                                     *)
(***************************************************************************)
\* GET /api/issues
RouteListIssues(limit, offset, newspaper_id) ==
    /\ IF limit >= LimitMin /\ limit <= LimitMax /\ offset >= OffsetMin
       THEN \E order \in Orderings(issues) :
                resp' = [reads |-> {"issues"},
                         route |-> "list_issues",
                         request |-> [newspaper_id |-> newspaper_id,
                         limit |-> limit,
                                      offset |-> offset],
                         response |-> list_issues(limit, offset, newspaper_id,
                         order)]
       ELSE resp' = [reads |-> {},
                     route |-> "list_issues",
                     request |-> [newspaper_id |-> newspaper_id,
                     limit |-> limit,
                                  offset |-> offset],
                                  response |-> [status |-> 422]]
    /\ UNCHANGED <<newspapers, issues, pages, jobs, nextId, call, returned,
                   ncalls, hist>>

\* A page handler that records the visit on the page row.
RoutePageDetailTouching(page_id) ==
    /\ resp' = [reads |-> get_page_detail(page_id).reads,
                route |-> "page_detail",
                request |-> [page_id |-> page_id],
                response |-> get_page_detail(page_id)]
    /\ pages' = {IF r.id = page_id
                 THEN [r EXCEPT !.ingestion_status = "viewed"] ELSE r :
                    r \in pages}
    /\ UNCHANGED <<newspapers, issues, jobs, nextId, call, returned,
                   ncalls, hist>>

\* GET /api/issues/{issue_id}
RouteIssueDetail(issue_id) ==
    /\ resp' = [reads |-> get_issue_detail(issue_id).reads,
                route |-> "issue_detail",
                request |-> [issue_id |-> issue_id],
                response |-> get_issue_detail(issue_id)]
    /\ UNCHANGED <<newspapers, issues, pages, jobs, nextId, call, returned,
                   ncalls, hist>>

\* GET /api/pages/{page_id}
RoutePageDetail(page_id) ==
    /\ resp' = [reads |-> get_page_detail(page_id).reads,
                route |-> "page_detail",
                request |-> [page_id |-> page_id],
                response |-> get_page_detail(page_id)]
    /\ UNCHANGED <<newspapers, issues, pages, jobs, nextId, call, returned,
                   ncalls, hist>>

\* Rows the store may hold when the routes are called.
NewspaperCandidates ==
    {Merge([NewspaperDefaults EXCEPT !.id = n], [name |-> n, city |-> "c"],
           NewspaperNullable) : n \in {"n1", "n2"}}

\* Pages as create_or_get leaves them, and one page after update_ocr.
PageCandidates ==
    {Merge([PageDefaults EXCEPT !.id = 1],
           [issue_id |-> 1, page_number |-> 2, image_path |-> "b.png",
            ocr_text |-> "text", ocr_confidence |-> 90,
            ocr_provider |-> "tesseract", ocr_version |-> "5",
            ocr_meta |-> "m", ingestion_status |-> "ocr_completed"],
           PageNullable),
     Merge([PageDefaults EXCEPT !.id = 2],
           [issue_id |-> 1, page_number |-> 1, image_path |-> "a.png"],
           PageNullable),
     Merge([PageDefaults EXCEPT !.id = 3],
           [issue_id |-> 3, page_number |-> 1, image_path |-> "a.png"],
           PageNullable)}

RequestIds == 1..4

\* No newspaper, the first one or both; any of the first three issues; no
\* page, the two pages of issue 1 or all three pages.
InitRoutes ==
    /\ newspapers \in {{}, {n \in NewspaperCandidates : n.id = "n1"},
                       NewspaperCandidates}
    /\ issues \in SUBSET {r \in BrowseCandidates : r.id <= 3}
    /\ pages \in {{}, {r \in PageCandidates : r.issue_id = 1}, PageCandidates}
    /\ jobs \in {{}, {CreatedJob}}
    /\ nextId = 5
    /\ call = [w \in Workers |-> IdleCall]
    /\ returned = {}
    /\ ncalls = 0
    /\ hist = NoHist
    /\ resp = NoResp

ListIssuesStep ==
    \E limit \in 0..MaxLimit, offset \in 0..MaxOffset,
       newspaper_id \in Opt({"n1", "n2"}) :
        RouteListIssues(limit, offset, newspaper_id)

IssueDetailStep == \E issue_id \in RequestIds : RouteIssueDetail(issue_id)

PageDetailStep == \E page_id \in RequestIds : RoutePageDetail(page_id)

NextRoutes == ListIssuesStep \/ IssueDetailStep \/ PageDetailStep

SpecRoutes == InitRoutes /\ [][NextRoutes]_vars

\* A request has been answered by the route.
Answered(route) == "route" \in DOMAIN resp /\ resp.route = route

\* C11: for every GET /api/issues response, total = offset + (number of
\* items returned) + (1 if has_more else 0), and limit and offset in the
\* response echo the request's values.
C11_TotalApproximation ==
    (Answered("list_issues") /\ resp.response.status = 200) =>
        /\ resp.response.total =
              resp.request.offset + Len(resp.response.items)
                + (IF resp.response.has_more THEN 1 ELSE 0)
        /\ resp.response.limit = resp.request.limit
        /\ resp.response.offset = resp.request.offset

\* A page with more rows behind it: offset 1, limit 1, three issues stored,
\* so total is 1 + 1 + 1 = 3.
C11_Witness ==
    /\ Answered("list_issues")
    /\ resp.response.status = 200
    /\ resp.request.limit = 1
    /\ resp.request.offset = 1
    /\ resp.response.has_more
    /\ Len(resp.response.items) = 1
    /\ resp.response.total = 3

\* C12: GET /api/issues/{id} answers by store state: 404 (detail containing
\* "not found") exactly when no issue has that id; 500 exactly when the issue
\* exists but no newspaper row has the issue's newspaper_id; otherwise 200
\* with the issue, its newspaper and the pages of that issue.
C12_IssueDetailByStoreState ==
    Answered("issue_detail") =>
        LET r == resp.response
            found == {i \in issues : i.id = resp.request.issue_id}
            issue == CHOOSE i \in found : TRUE
            owner == {n \in newspapers : n.id = issue.newspaper_id}
            newspaper == CHOOSE n \in owner : TRUE
            mine == {p \in pages : p.issue_id = issue.id}
        IN /\ (r.status = 404) <=> (found = {})
           /\ r.status = 404 => ContainsWords(r.detail, <<"not", "found">>)
           /\ (r.status = 500) <=> (found # {} /\ owner = {})
           /\ (found # {} /\ owner # {}) =>
                /\ r.status = 200
                /\ \A c \in DOMAIN issue : r.body[c] = issue[c]
                /\ r.body.newspaper.id = newspaper.id
                /\ r.body.newspaper.name = newspaper.name
                /\ Len(r.body.pages) = Cardinality(mine)
                /\ {r.body.pages[k].id : k \in 1..Len(r.body.pages)} =
                       {p.id : p \in mine}

\* An issue whose newspaper row is missing is answered with 500.
C12_Witness ==
    /\ Answered("issue_detail")
    /\ resp.response.status = 500
    /\ \E i \in issues :
         /\ i.id = resp.request.issue_id
         /\ \A n \in newspapers : n.id # i.newspaper_id

\* C13: GET /api/pages/{id} returns 404 (detail containing "not found")
\* exactly when no page row has that id, and otherwise 200 with that page's
\* fields including its OCR text, confidence and ingestion status as stored.
C13_PageDetail ==
    Answered("page_detail") =>
        LET r == resp.response
            found == {p \in pages : p.id = resp.request.page_id}
            page == CHOOSE p \in found : TRUE
        IN /\ (r.status = 404) <=> (found = {})
           /\ r.status = 404 => ContainsWords(r.detail, <<"not", "found">>)
           /\ found # {} =>
                /\ r.status = 200
                /\ \A c \in {"id", "issue_id", "page_number", "image_path",
                             "ocr_text", "ocr_confidence", "ingestion_status"} :
                       r.body[c] = page[c]

\* A page with OCR results is returned with its text and confidence.
C13_Witness ==
    /\ Answered("page_detail")
    /\ resp.response.status = 200
    /\ resp.response.body.ocr_text = Some("text")
    /\ resp.response.body.ocr_confidence = Some(90)
    /\ resp.response.body.ingestion_status = "ocr_completed"

\* C20: the browse endpoints issue no write to any table and read only the
\* newspapers, issues and pages tables, never the retrieval tables: every
\* browse request leaves the store unchanged and its handler queries browse
\* tables only.
C20_BrowseReadOnly ==
    [][/\ <<newspapers, issues, pages, jobs>>' = <<newspapers, issues, pages, jobs>>
       /\ resp'.reads \subseteq BrowseTables]_vars

\* A detail request answered from the three browse tables while the
\* ingest_jobs table holds a job.
C20_Witness ==
    /\ Answered("issue_detail")
    /\ resp.response.status = 200
    /\ resp.reads = {"issues", "newspapers", "pages"}
    /\ jobs # {}
    /\ pages # {}

(***************************************************************************)
(* NewspaperRepository.get_or_create: a read by name, then a plain insert. *)
(***************************************************************************)
NewspaperNames == {"Times", "Post"}

\* A lookup that compares the wrong column and so never finds the name.
GetByCity(name) == maybe_single({r \in newspapers : r.city = Some(name)})

\* .select("*").eq("name", name).maybe_single().execute()
get_by_name(name) == maybe_single({r \in newspapers : r.name = name})

\* NewspaperCreate(name=name) as a dict of Optional values
NewspaperCreate(name) ==
    [source_type |-> Some("upload"), name |-> Some(name), city |-> None,
     country |-> None, start_year |-> None, end_year |-> None,
     description |-> None]

\* An insert that hands back the stored row when the name is taken.
InsertUnlessNamed(name, id) ==
    IF \E r \in newspapers : r.name = name
    THEN [rows |-> newspapers, data |-> {r \in newspapers : r.name = name}]
    ELSE create(newspapers, NewspaperCreate(name), NewspaperDefaults,
                NewspaperNullable, id)

\* The store's schema declares no uniqueness constraint on newspapers.name.
NameUniqueInStore == FALSE

\* self.create(new_newspaper): a plain insert, which a store with a uniqueness
\* constraint on the name would reject for a name already stored.
InsertNewspaper(name, id) ==
    IF NameUniqueInStore /\ \E r \in newspapers : r.name = name
    THEN [rows |-> newspapers, data |-> {}]
    ELSE create(newspapers, NewspaperCreate(name), NewspaperDefaults,
                NewspaperNullable, id)

\* First store call of get_or_create: the read by name.
GetOrCreateRead(w, name) ==
    /\ CanStart(w, MaxGetOrCreate)
    /\ ncalls' = ncalls + 1
    /\ hist' = [hist EXCEPT !.overlap =
                   @ \/ \E v \in Workers \ {w} : call[v].pc = "insert"]
    /\ LET existing == get_by_name(name)
           op == "get_or_create"
       IN CASE existing.kind = "row" ->
                 /\ call' = [call EXCEPT ![w] =
                        [op |-> op, pc |-> "done", args |-> [name |-> name],
                         via |-> "read", ret |-> Ok(existing.row.id)]]
                 /\ returned' = returned \cup
                        {[ret |-> Ok(existing.row.id), tbl |-> "newspapers",
                          key |-> name]}
            [] existing.kind = "none" ->
                 /\ call' = [call EXCEPT ![w] =
                        [op |-> op, pc |-> "insert", args |-> [name |-> name]]]
                 /\ UNCHANGED returned
            [] existing.kind = "error" ->
                 /\ call' = [call EXCEPT ![w] =
                        [op |-> op, pc |-> "done", args |-> [name |-> name],
                         via |-> "read", ret |-> Raised("multiple rows")]]
                 /\ returned' = returned \cup
                        {[ret |-> Raised("multiple rows"),
                          tbl |-> "newspapers",
                          key |-> name]}
    /\ UNCHANGED <<newspapers, issues, pages, jobs, nextId, resp>>

\* Second store call of get_or_create: the insert.
GetOrCreateInsert(w) ==
    /\ call[w].op = "get_or_create"
    /\ call[w].pc = "insert"
    /\ LET name == call[w].args.name
           res == InsertNewspaper(name, nextId)
           ret == IF res.data = {} THEN Raised("duplicate key")
                  ELSE Ok((CHOOSE r \in res.data : TRUE).id)
       IN /\ newspapers' = res.rows
          /\ nextId' = IF \E r \in res.rows : r.id = nextId
                       THEN nextId + 1 ELSE nextId
          /\ hist' = [hist EXCEPT !.inserts[name] = @ + 1]
          /\ call' = [call EXCEPT ![w] =
                 [op |-> call[w].op, pc |-> "done", args |-> call[w].args,
                  via |-> "insert", ret |-> ret]]
          /\ returned' = returned \cup
                 {[ret |-> ret, tbl |-> "newspapers", key |-> name]}
    /\ UNCHANGED <<issues, pages, jobs, ncalls, resp>>

\* An empty store; hist counts the inserts per name and records whether a
\* call started while another was between its read and its insert.
InitNewspapers ==
    /\ newspapers = {}
    /\ issues = {}
    /\ pages = {}
    /\ jobs = {}
    /\ nextId = 1
    /\ call = [w \in Workers |-> IdleCall]
    /\ returned = {}
    /\ ncalls = 0
    /\ hist = [overlap |-> FALSE, inserts |-> [n \in NewspaperNames |-> 0]]
    /\ resp = NoResp

GetOrCreateStart ==
    \E w \in Workers, name \in NewspaperNames : GetOrCreateRead(w, name)

GetOrCreateWrite == \E w \in Workers : GetOrCreateInsert(w)

NextNewspapers == GetOrCreateStart \/ GetOrCreateWrite

SpecNewspapers == InitNewspapers /\ [][NextNewspapers]_vars

\* C14: two get_or_create calls with the same newspaper name not yet in the
\* store, interleaved so that both existence reads happen before either
\* insert, both insert: the store then holds two rows of that name and the
\* two calls returned different ids.
C14_ConcurrentDuplicates ==
    \A w, v \in Workers :
        (/\ w # v
         /\ call[w].op = "get_or_create" /\ call[v].op = "get_or_create"
         /\ call[w].pc = "done" /\ call[v].pc = "done"
         /\ call[w].via = "insert" /\ call[v].via = "insert"
         /\ call[w].args.name = call[v].args.name) =>
            /\ Cardinality({r \in newspapers : r.name = call[w].args.name}) >= 2
            /\ call[w].ret.status = "ok" /\ call[v].ret.status = "ok"
            /\ call[w].ret.id # call[v].ret.id

\* Both workers read "absent" for the name "Times" on the empty store and
\* both inserted: two rows named "Times".
C14_Witness ==
    /\ ncalls = 2
    /\ \A w \in Workers :
         /\ call[w].op = "get_or_create"
         /\ call[w].pc = "done"
         /\ call[w].via = "insert"
         /\ call[w].args.name = "Times"
    /\ Cardinality({r \in newspapers : r.name = "Times"}) = 2

\* C15: sequential get_or_create calls with the same name are idempotent: the
\* first call on an absent name inserts one row, every later call returns that
\* same row (same id) and issues no insert, so exactly one newspaper row has
\* that name.
C15_SequentialIdempotent ==
    ~hist.overlap =>
        \A name \in NewspaperNames :
            (\E r \in returned : r.key = name) =>
                /\ hist.inserts[name] = 1
                /\ Cardinality({n \in newspapers : n.name = name}) = 1
                /\ \A r \in returned : r.key = name =>
                       /\ r.ret.status = "ok"
                       /\ \E n \in newspapers : n.name = name /\ n.id = r.ret.id

\* Three sequential calls for "Times": one insert, then two reads that return
\* the inserted row.
C15_Witness ==
    /\ ~hist.overlap
    /\ ncalls >= 3
    /\ hist.inserts["Times"] = 1
    /\ hist.inserts["Post"] = 0
    /\ \A w \in Workers : call[w].pc = "done" /\ call[w].via = "read"
                          /\ call[w].args.name = "Times"

(***************************************************************************)
(* PageRepository.update_ocr / update_status, with create_or_get, on the   *)
(* pages of one stored issue.                                              *)
(***************************************************************************)
OcrFields ==
    {"ocr_text", "ocr_confidence", "ocr_provider", "ocr_version", "ocr_meta"}

\* update_ocr's update_data: ocr_text and ingestion_status are always
\* present, the four Optional arguments may be None.
UpdateOcrData(a) ==
    [ocr_text |-> Some(a.ocr_text), ocr_confidence |-> a.ocr_confidence,
     ocr_provider |-> a.ocr_provider, ocr_version |-> a.ocr_version,
     ocr_meta |-> a.ocr_meta, ingestion_status |-> Some(a.ingestion_status)]

\* update_ocr: self.update(page_id, update_data)
update_ocr(page_id, a) == update(pages, page_id, UpdateOcrData(a), PageNullable)

\* update_status: self.update(page_id, {"ingestion_status": status})
update_status(page_id, status) ==
    update(pages, page_id, [ingestion_status |-> Some(status)], PageNullable)

\* Arguments of update_ocr: all OCR values given, given with an empty text,
\* the text alone (the Optional arguments at their default None), and the
\* call of the unit test (no ocr_meta).
UpdateOcrArgs ==
    {[ocr_text |-> "text", ocr_confidence |-> Some(90),
      ocr_provider |-> Some("tesseract"), ocr_version |-> Some("5"),
      ocr_meta |-> Some("m"), ingestion_status |-> "ocr_completed"],
     [ocr_text |-> "", ocr_confidence |-> Some(0),
      ocr_provider |-> Some("tesseract"), ocr_version |-> Some("5"),
      ocr_meta |-> Some("m"), ingestion_status |-> "ocr_failed"],
     [ocr_text |-> "text", ocr_confidence |-> None,
      ocr_provider |-> None, ocr_version |-> None,
      ocr_meta |-> None, ingestion_status |-> "ocr_completed"],
     [ocr_text |-> "text", ocr_confidence |-> Some(95),
      ocr_provider |-> Some("test_ocr"), ocr_version |-> Some("v1"),
      ocr_meta |-> None, ingestion_status |-> "ocr_completed"]}

PageStatusArgs == {"ocr_pending", "indexed"}
PageIdArgs == {2, 3}

\* BaseRepository.update after the store call:
\* if not response.data: raise ValueError(...); return the first row
UpdateResult(res, id, table_name) ==
    IF res.data = {}
    THEN Raised(<<"Failed", "to", "update", "record", ToString(id), "in",
                  table_name>>)
    ELSE Ok((CHOOSE r \in res.data : TRUE).id)

UpdateOcrCall(w, page_id, a) ==
    /\ CanStart(w, MaxCalls)
    /\ ncalls' = ncalls + 1
    /\ LET res == update_ocr(page_id, a)
       IN /\ pages' = res.rows
          /\ call' = [call EXCEPT ![w] =
                 [op |-> "update_ocr", pc |-> "done", args |-> a,
                  ret |-> UpdateResult(res, page_id, "pages"),
                  page_id |-> page_id]]
    /\ UNCHANGED <<newspapers, issues, jobs, nextId, returned, hist, resp>>

UpdateStatusCall(w, page_id, status) ==
    /\ CanStart(w, MaxCalls)
    /\ ncalls' = ncalls + 1
    /\ LET res == update_status(page_id, status)
       IN /\ pages' = res.rows
          /\ call' = [call EXCEPT ![w] =
                 [op |-> "update_status", pc |-> "done",
                  args |-> [status |-> status],
                  ret |-> UpdateResult(res, page_id, "pages"),
                  page_id |-> page_id]]
    /\ UNCHANGED <<newspapers, issues, jobs, nextId, returned, hist, resp>>

\* The store after IssueRepository.create_or_get on an empty store.
InitOneIssue ==
    /\ newspapers = {}
    /\ issues = {Merge([IssueDefaults EXCEPT !.id = 1],
                       [newspaper_id |-> "n1", issue_date |-> 1, num_pages |-> 2],
                       IssueNullable)}
    /\ pages = {}
    /\ jobs = {}
    /\ nextId = 2
    /\ call = [w \in Workers |-> IdleCall]
    /\ returned = {}
    /\ ncalls = 0
    /\ hist = NoHist
    /\ resp = NoResp

UpdateOcrStep ==
    \E w \in Workers, page_id \in PageIdArgs, a \in UpdateOcrArgs :
        UpdateOcrCall(w, page_id, a)

UpdateStatusStep ==
    \E w \in Workers, page_id \in PageIdArgs, st \in PageStatusArgs :
        UpdateStatusCall(w, page_id, st)

NextPages ==
    \/ PageCreateOrGetStart
    \/ PageCreateOrGetWrite
    \/ UpdateOcrStep
    \/ UpdateStatusStep

SpecPages == InitOneIssue /\ [][NextPages]_vars

\* C16: in every reachable state of a page row, its OCR fields (ocr_text,
\* ocr_confidence, ocr_provider, ocr_version, ocr_meta) are populated together
\* or not at all: after create_or_get all are null, and after any update_ocr
\* call all are non-null.
C16_OcrTogether ==
    \A p \in pages :
        \/ \A c \in OcrFields : p[c] = None
        \/ \A c \in OcrFields : p[c] # None

(***************************************************************************)
(* Write failures.  The store may answer a write with no row: the write    *)
(* matched no row, was refused, or was applied without a representation    *)
(* being returned.  Each repository write hands the answer to the check    *)
(* "if not response.data: raise ValueError(...)" of BaseRepository.        *)
(* Calls are made one at a time here, so the existence read of an          *)
(* operation and its write are taken in one step.                          *)
(***************************************************************************)
StoreOutcomes == {"returned", "silent", "refused"}

\* What the store makes of a write res on the table rows.
StoreAnswer(rows, res, outcome) ==
    CASE outcome = "returned" -> res
      [] outcome = "silent" -> [rows |-> res.rows, data |-> {}]
      [] outcome = "refused" -> [rows |-> rows, data |-> {}]

\* BaseRepository.create after the store call
CreateResult(res, table_name) ==
    IF res.data = {}
    THEN Raised(<<"Failed", "to", "create", "record", "in", table_name>>)
    ELSE Ok((CHOOSE r \in res.data : TRUE).id)

\* An upsert that reports the failure without the table's name.
UpsertResultNoTable(res, table_name) ==
    IF res.data = {}
    THEN Raised(<<"Failed", "to", "upsert", "record">>)
    ELSE Ok((CHOOSE r \in res.data : TRUE).id)

\* BaseRepository._execute_upsert after the store call
UpsertResult(res, table_name) ==
    IF res.data = {}
    THEN Raised(<<"Failed", "to", "upsert", "record", "in", table_name>>)
    ELSE Ok((CHOOSE r \in res.data : TRUE).id)

\* The finished call of worker w1: the operation, its table, whether it made a
\* write call, the rows the store returned for it, and what the caller got.
Finished(op, table_name, wrote, data, ret) ==
    /\ call' = [call EXCEPT !["w1"] =
           [data |-> data, op |-> op, pc |-> "done", ret |-> ret,
            wrote |-> wrote, table |-> table_name]]
    /\ ncalls' = ncalls + 1
    /\ nextId' = IF \E r \in newspapers' \cup issues' \cup pages' \cup jobs' :
                       r.id = nextId
                 THEN nextId + 1 ELSE nextId
    /\ UNCHANGED <<returned, hist, resp>>

\* IssueRepository.create_or_get
WfIssueCreateOrGet(a, outcome) ==
    /\ ncalls < MaxWrites
    /\ UNCHANGED <<newspapers, pages, jobs>>
    /\ LET existing == get_by_newspaper_and_date(a.newspaper_id, a.issue_date)
           res == StoreAnswer(issues,
                      execute_upsert(issues, ExcludeNone(IssueCreate(a)),
                                     {"newspaper_id", "issue_date"},
                                     IssueDefaults, IssueNullable, nextId),
                      outcome)
       IN IF existing.kind = "row"
          THEN /\ UNCHANGED issues
               /\ Finished("create_or_get", "issues", FALSE, {},
                           Ok(existing.row.id))
          ELSE /\ issues' = res.rows
               /\ Finished("create_or_get", "issues", TRUE, res.data,
                           UpsertResult(res, "issues"))

\* PageRepository.create_or_get
WfPageCreateOrGet(a, outcome) ==
    /\ ncalls < MaxWrites
    /\ UNCHANGED <<newspapers, issues, jobs>>
    /\ LET existing == get_by_issue_and_number(a.issue_id, a.page_number)
           res == StoreAnswer(pages,
                      execute_upsert(pages, ExcludeNone(PageCreate(a)),
                                     {"issue_id", "page_number"},
                                     PageDefaults, PageNullable, nextId),
                      outcome)
       IN IF existing.kind = "row"
          THEN /\ UNCHANGED pages
               /\ Finished("create_or_get", "pages", FALSE, {},
                           Ok(existing.row.id))
          ELSE /\ pages' = res.rows
               /\ Finished("create_or_get", "pages", TRUE, res.data,
                           UpsertResult(res, "pages"))

\* NewspaperRepository.get_or_create
WfGetOrCreate(name, outcome) ==
    /\ ncalls < MaxWrites
    /\ UNCHANGED <<issues, pages, jobs>>
    /\ LET existing == get_by_name(name)
           res == StoreAnswer(newspapers, InsertNewspaper(name, nextId), outcome)
       IN IF existing.kind = "row"
          THEN /\ UNCHANGED newspapers
               /\ Finished("get_or_create", "newspapers", FALSE, {},
                           Ok(existing.row.id))
          ELSE /\ newspapers' = res.rows
               /\ Finished("get_or_create", "newspapers", TRUE, res.data,
                           CreateResult(res, "newspapers"))

\* IngestJobRepository.create_with_key
WfCreateWithKey(token, outcome) ==
    /\ ncalls < MaxWrites
    /\ UNCHANGED <<newspapers, issues, pages>>
    /\ LET res == StoreAnswer(jobs, create_with_key(token, "pending", FALSE),
                              outcome)
       IN /\ jobs' = res.rows
          /\ Finished("create_with_key", "ingest_jobs", TRUE, res.data,
                      CreateResult(res, "ingest_jobs"))

\* IngestJobRepository.update_job
WfUpdateJob(job_id, a, outcome) ==
    /\ ncalls < MaxWrites
    /\ UNCHANGED <<newspapers, issues, pages>>
    /\ LET res == StoreAnswer(jobs, update_job(job_id, a), outcome)
       IN /\ jobs' = res.rows
          /\ Finished("update_job", "ingest_jobs", TRUE, res.data,
                      UpdateResult(res, job_id, "ingest_jobs"))

\* IngestJobRepository.increment_progress
WfIncrementProgress(job_id, a, outcome) ==
    /\ ncalls < MaxWrites
    /\ UNCHANGED <<newspapers, issues, pages>>
    /\ LET job == get_by_id(jobs, job_id)
           progress == NewProgress(job.row.progress, a)
           res == StoreAnswer(jobs,
                      update_job(job_id,
                          [issue_id |-> None, status |-> None,
                           progress |-> Some(progress), error_message |-> None]),
                      outcome)
       IN IF job.kind # "row"
          THEN /\ UNCHANGED jobs
               /\ Finished("increment_progress", "ingest_jobs", FALSE, {},
                           Raised(<<"Job", ToString(job_id), "not", "found">>))
          ELSE /\ jobs' = res.rows
               /\ Finished("increment_progress", "ingest_jobs", TRUE, res.data,
                           UpdateResult(res, job_id, "ingest_jobs"))

\* PageRepository.update_ocr
WfUpdateOcr(page_id, a, outcome) ==
    /\ ncalls < MaxWrites
    /\ UNCHANGED <<newspapers, issues, jobs>>
    /\ LET res == StoreAnswer(pages, update_ocr(page_id, a), outcome)
       IN /\ pages' = res.rows
          /\ Finished("update_ocr", "pages", TRUE, res.data,
                      UpdateResult(res, page_id, "pages"))

\* PageRepository.update_status
WfUpdateStatus(page_id, status, outcome) ==
    /\ ncalls < MaxWrites
    /\ UNCHANGED <<newspapers, issues, jobs>>
    /\ LET res == StoreAnswer(pages, update_status(page_id, status), outcome)
       IN /\ pages' = res.rows
          /\ Finished("update_status", "pages", TRUE, res.data,
                      UpdateResult(res, page_id, "pages"))

\* A store that holds one issue (id 1), one of its pages (id 2) and one job
\* (id 3), each as its create operation leaves it.
InitStored ==
    /\ newspapers = {}
    /\ issues = {Merge([IssueDefaults EXCEPT !.id = 1],
                       [newspaper_id |-> "n1", issue_date |-> 1, num_pages |-> 2],
                       IssueNullable)}
    /\ pages = {Merge([PageDefaults EXCEPT !.id = 2],
                      [issue_id |-> 1, page_number |-> 1, image_path |-> "a.png"],
                      PageNullable)}
    /\ jobs = {[CreatedJob EXCEPT !.id = 3]}
    /\ nextId = 4
    /\ call = [w \in Workers |-> IdleCall]
    /\ returned = {}
    /\ ncalls = 0
    /\ hist = NoHist
    /\ resp = NoResp

WfIssueCreateOrGetStep ==
    \E d \in IssueDates, outcome \in StoreOutcomes :
        WfIssueCreateOrGet(
            [newspaper_id |-> "n1", issue_date |-> d, num_pages |-> 0,
             source_type |-> "upload", source_external_id |-> None,
             metadata |-> None], outcome)

WfPageCreateOrGetStep ==
    \E n \in PageNumbers, outcome \in StoreOutcomes :
        WfPageCreateOrGet(
            [issue_id |-> 1, page_number |-> n, image_path |-> "a.png",
             ingestion_status |-> "pending"], outcome)

WfGetOrCreateStep ==
    \E outcome \in StoreOutcomes : WfGetOrCreate("Times", outcome)

WfCreateWithKeyStep ==
    \E outcome \in StoreOutcomes : WfCreateWithKey("k2", outcome)

WfUpdateJobStep ==
    \E outcome \in StoreOutcomes :
        WfUpdateJob(3, [issue_id |-> None, status |-> Some("processing"),
                        progress |-> None, error_message |-> None], outcome)

WfIncrementProgressStep ==
    \E job_id \in {3, 9}, e \in {None, Some("e1")}, outcome \in StoreOutcomes :
        WfIncrementProgress(job_id,
            [pages_total |-> 3, pages_processed |-> 1,
             current_stage |-> "processing", error |-> e], outcome)

WfUpdateOcrStep ==
    \E a \in {x \in UpdateOcrArgs : x.ocr_meta # None},
       outcome \in StoreOutcomes :
        WfUpdateOcr(2, a, outcome)

WfUpdateStatusStep ==
    \E page_id \in {2, 9}, outcome \in StoreOutcomes :
        WfUpdateStatus(page_id, "indexed", outcome)

NextWriteFailure ==
    \/ WfIssueCreateOrGetStep
    \/ WfPageCreateOrGetStep
    \/ WfGetOrCreateStep
    \/ WfCreateWithKeyStep
    \/ WfUpdateJobStep
    \/ WfIncrementProgressStep
    \/ WfUpdateOcrStep
    \/ WfUpdateStatusStep

SpecWriteFailure == InitStored /\ [][NextWriteFailure]_vars

\* The operations the write-failure contract covers.
WriteOps ==
    {"create_or_get", "get_or_create", "create_with_key", "update_job",
     "increment_progress", "update_ocr", "update_status"}

\* C17: when the store returns no row for a write (the insert in create, the
\* update in update, the upsert in _execute_upsert), the operation raises a
\* write-failure error whose message names the target table and returns no
\* record; this covers create_or_get, get_or_create, create_with_key,
\* update_job, increment_progress, update_ocr and update_status.
C17_WriteFailureRaises ==
    LET c == call["w1"]
    IN (c.pc = "done" /\ c.op \in WriteOps /\ c.wrote /\ c.data = {}) =>
          /\ c.ret.status = "error"
          /\ "id" \notin DOMAIN c.ret
          /\ c.ret.msg[1] = "Failed"
          /\ ContainsWords(c.ret.msg, <<"in", c.table>>)

\* An upsert of create_or_get for which the store returned no row.
C17_Witness ==
    LET c == call["w1"]
    IN /\ c.pc = "done"
       /\ c.op = "create_or_get"
       /\ c.wrote
       /\ c.data = {}
       /\ c.ret.status = "error"
       /\ c.ret.msg = <<"Failed", "to", "upsert", "record", "in", "issues">>

(***************************************************************************)
(* PdfDocumentProcessor.process: convert_from_bytes rasterizes the file to *)
(* a list of images or raises; each image is then saved to a buffer in the *)
(* configured format, which may raise; any exception is re-raised as       *)
(* Exception("Failed to process PDF: ...") from e.                         *)
(* A file is described by what the libraries make of it: whether it        *)
(* rasterizes, its pages, and for each page whether its image saves.       *)
(***************************************************************************)
ImageFormats == {"PNG", "JPEG"}
PageContents == {"p1", "p2"}

\* Sequences over S of length at most n
SeqUpTo(S, n) == UNION {[1..k -> S] : k \in 0..n}

Files ==
    [rasterizes : BOOLEAN,
     pages : SeqUpTo([content : PageContents, saves : BOOLEAN], MaxPages)]

\* self.image_format.lower()
Lower(format) == IF format = "PNG" THEN "png" ELSE "jpeg"

\* convert_from_bytes(file_bytes, dpi=self.dpi, fmt=...): the page images, in
\* page order, each decoded from the format fmt
convert_from_bytes(file, fmt) ==
    [i \in 1..Len(file.pages) |->
        [via |-> fmt, page |-> i, content |-> file.pages[i].content,
         saves |-> file.pages[i].saves]]

\* image.save(image_buffer, format=...); image_buffer.getvalue(): the bytes
\* of the image in that format
Save(image, format) ==
    [page |-> image.page, content |-> image.content, format |-> format]

\* A list that grows at the front.
PrependPage(page_images, bytes) == <<bytes>> \o page_images

\* page_images.append(...)
AppendPage(page_images, bytes) == Append(page_images, bytes)

\* A handler that hands back the pages encoded so far.
ReturnEncoded(page_images, e) == [status |-> "ok", result |-> page_images]

\* except Exception as e: raise Exception(f"Failed to process PDF: {str(e)}") from e
Reraise(page_images, e) ==
    [status |-> "error", msg |-> <<"Failed", "to", "process", "PDF:">> \o e,
     cause |-> e]

\* The exceptions of the libraries, as the words of str(e).
RasterError == <<"Unable", "to", "get", "page", "count">>
SaveError(image) == <<"cannot", "write", "page", ToString(image.page)>>

\* process, up to the return of convert_from_bytes
ProcessConvert(file, format) ==
    /\ call["w1"].pc \in {"idle", "done"}
    /\ call' = [call EXCEPT !["w1"] =
           IF file.rasterizes
           THEN [op |-> "process", pc |-> "encode", format |-> format,
                 file |-> file,
                 page_images |-> <<>>,
                 images |-> convert_from_bytes(file, Lower(format))]
           ELSE [op |-> "process", pc |-> "done", ret |-> Reraise(<<>>,
                 RasterError),
                 format |-> format, file |-> file,
                 page_images |-> <<>>]]
    /\ UNCHANGED <<newspapers, issues, pages, jobs, nextId, returned, ncalls,
                   hist, resp>>

\* One turn of "for image in images": save the next image and append its bytes.
ProcessEncode ==
    /\ call["w1"].op = "process"
    /\ call["w1"].pc = "encode"
    /\ Len(call["w1"].page_images) < Len(call["w1"].images)
    /\ LET c == call["w1"]
           image == c.images[Len(c.page_images) + 1]
       IN call' = [call EXCEPT !["w1"] =
              IF image.saves
              THEN [c EXCEPT !.page_images =
                       AppendPage(c.page_images, Save(image, c.format))]
              ELSE [op |-> "process", pc |-> "done",
                    ret |-> Reraise(c.page_images, SaveError(image)),
                    format |-> c.format, file |-> c.file,
                    page_images |-> c.page_images]]
    /\ UNCHANGED <<newspapers, issues, pages, jobs, nextId, returned, ncalls,
                   hist, resp>>

\* return page_images, after the last image
ProcessReturn ==
    /\ call["w1"].op = "process"
    /\ call["w1"].pc = "encode"
    /\ Len(call["w1"].page_images) = Len(call["w1"].images)
    /\ LET c == call["w1"]
       IN call' = [call EXCEPT !["w1"] =
              [op |-> "process", pc |-> "done", ret |-> [status |-> "ok",
               result |-> c.page_images],
               format |-> c.format, file |-> c.file,
               page_images |-> c.page_images]]
    /\ UNCHANGED <<newspapers, issues, pages, jobs, nextId, returned, ncalls,
                   hist, resp>>

ProcessStart ==
    \E file \in Files, format \in ImageFormats : ProcessConvert(file, format)

NextProcess == ProcessStart \/ ProcessEncode \/ ProcessReturn

SpecProcess == InitEmpty /\ [][NextProcess]_vars

\* A finished process call of worker w1
Processed == call["w1"].op = "process" /\ call["w1"].pc = "done"

\* Every page image of the file saves in the configured format.
AllSave(file) == \A i \in 1..Len(file.pages) : file.pages[i].saves

\* The exception the libraries raise first on this file.
FirstFailure(file) ==
    IF ~file.rasterizes THEN RasterError
    ELSE LET i == CHOOSE k \in 1..Len(file.pages) :
                    /\ ~file.pages[k].saves
                    /\ \A j \in 1..(k - 1) : file.pages[j].saves
         IN <<"cannot", "write", "page", ToString(i)>>

C19_AllOrNothing ==
    (Processed /\ ~(call["w1"].file.rasterizes /\ AllSave(call["w1"].file))) =>
        LET c == call["w1"]
        IN /\ c.ret.status = "error"
           /\ SubSeq(c.ret.msg, 1, 3) = <<"Failed", "to", "process">>
           /\ c.ret.cause = FirstFailure(c.file)
           /\ ContainsWords(c.ret.msg, FirstFailure(c.file))
           /\ "result" \notin DOMAIN c.ret

\* The second page fails after the first was encoded: the encoded page is
\* dropped and the call raises.
C19_Witness ==
    /\ Processed
    /\ call["w1"].file.rasterizes
    /\ Len(call["w1"].file.pages) >= 2
    /\ Len(call["w1"].page_images) = 1
    /\ ~call["w1"].file.pages[2].saves
    /\ call["w1"].ret.status = "error"

\* ---------------------------------------------------------------------------
\* Ordering of the issue list
\* ---------------------------------------------------------------------------

\* C21: GET /api/issues returns its items newest first (issue date
\* descending), with the newspaper_id filter and without it.
C21_NewestFirst ==
    resp.status = 200 =>
        \A i, j \in 1..Len(resp.items) :
            i < j => resp.items[i].issue_date >= resp.items[j].issue_date

(***************************************************************************)
(* Store calls of a repository operation.  Every store call is one         *)
(* query.execute(); the client raises when the call fails.  No repository  *)
(* method has a try/except or a loop around execute(), so the exception    *)
(* leaves the method at the failed call.  Each attempt of worker w1 is     *)
(* logged in call["w1"].attempts.                                          *)
(***************************************************************************)
MaxOps == 2          \* repository calls in SpecStoreCalls

StoreError == <<"store", "call", "failed">>

\* An operation that makes the failed store call again.
RetryOnFailure(c, step) ==
    [c EXCEPT !.attempts = Append(@, [step |-> step, ok |-> FALSE])]

\* execute() raised at the store call step: the exception leaves the method.
Propagate(c, step) ==
    [c EXCEPT !.pc = "done",
              !.attempts = Append(@, [step |-> step, ok |-> FALSE]),
              !.ret = Raised(StoreError)]

\* execute() answered at the store call step: the method goes on to pc.
Answer(c, step, pc, ret) ==
    [c EXCEPT !.pc = pc,
              !.attempts = Append(@, [step |-> step, ok |-> TRUE]),
              !.ret = ret]

\* The caller enters a repository method; its first statement is a store call.
ScStart(op, a) ==
    /\ call["w1"].pc \in {"idle", "done"}
    /\ ncalls < MaxOps
    /\ ncalls' = ncalls + 1
    /\ call' = [call EXCEPT !["w1"] =
           [op |-> op,
            pc |-> IF op = "update_status" THEN "update" ELSE "select",
            args |-> a, ret |-> None,
            job |-> None,
            attempts |-> <<>>]]
    /\ UNCHANGED <<newspapers, issues, pages, jobs, nextId, returned, hist,
                   resp>>

\* IssueRepository.create_or_get: get_by_newspaper_and_date
ScIssueSelect(fails) ==
    LET c == call["w1"]
        existing == get_by_newspaper_and_date(c.args.newspaper_id,
                                              c.args.issue_date)
    IN /\ c.op = "issue_create_or_get"
       /\ c.pc = "select"
       /\ call' = [call EXCEPT !["w1"] =
              IF fails THEN Propagate(c, "select")
              ELSE IF existing.kind = "row"
                   THEN Answer(c, "select", "done", Ok(existing.row.id))
                   ELSE Answer(c, "select", "upsert", None)]
       /\ UNCHANGED <<newspapers, issues, pages, jobs, nextId, returned,
                      ncalls, hist, resp>>

\* IssueRepository.create_or_get: _execute_upsert
ScIssueUpsert(fails) ==
    LET c == call["w1"]
        res == execute_upsert(issues, ExcludeNone(IssueCreate(c.args)),
                              {"newspaper_id", "issue_date"},
                              IssueDefaults, IssueNullable, nextId)
    IN /\ c.op = "issue_create_or_get"
       /\ c.pc = "upsert"
       /\ IF fails
          THEN /\ call' = [call EXCEPT !["w1"] = Propagate(c, "upsert")]
               /\ UNCHANGED <<issues, nextId>>
          ELSE /\ call' = [call EXCEPT !["w1"] =
                      Answer(c, "upsert", "done", UpsertResult(res, "issues"))]
               /\ issues' = res.rows
               /\ nextId' = IF \E r \in res.rows : r.id = nextId
                            THEN nextId + 1 ELSE nextId
       /\ UNCHANGED <<newspapers, pages, jobs, returned, ncalls, hist, resp>>

\* NewspaperRepository.get_or_create: the select by name
ScNewspaperSelect(fails) ==
    LET c == call["w1"]
        existing == get_by_name(c.args.name)
    IN /\ c.op = "get_or_create"
       /\ c.pc = "select"
       /\ call' = [call EXCEPT !["w1"] =
              IF fails \/ existing.kind = "error"
              THEN Propagate(c, "select")
              ELSE IF existing.kind = "row"
                   THEN Answer(c, "select", "done", Ok(existing.row.id))
                   ELSE Answer(c, "select", "insert", None)]
       /\ UNCHANGED <<newspapers, issues, pages, jobs, nextId, returned,
                      ncalls, hist, resp>>

\* NewspaperRepository.get_or_create: create
ScNewspaperInsert(fails) ==
    LET c == call["w1"]
        res == InsertNewspaper(c.args.name, nextId)
    IN /\ c.op = "get_or_create"
       /\ c.pc = "insert"
       /\ IF fails
          THEN /\ call' = [call EXCEPT !["w1"] = Propagate(c, "insert")]
               /\ UNCHANGED <<newspapers, nextId>>
          ELSE /\ call' = [call EXCEPT !["w1"] =
                      Answer(c, "insert", "done",
                             CreateResult(res, "newspapers"))]
               /\ newspapers' = res.rows
               /\ nextId' = IF \E r \in res.rows : r.id = nextId
                            THEN nextId + 1 ELSE nextId
       /\ UNCHANGED <<issues, pages, jobs, returned, ncalls, hist, resp>>

\* An increment_progress that takes a missing job for a new one and goes on
\* to the write.
ScJobSelectLenient(fails) ==
    LET c == call["w1"]
        job == get_by_id(jobs, c.args.job_id)
        read == IF job.kind = "row" THEN job.row
                ELSE [JobDefaults EXCEPT !.id = c.args.job_id]
    IN /\ c.op = "increment_progress"
       /\ c.pc = "select"
       /\ call' = [call EXCEPT !["w1"] =
              IF fails THEN Propagate(c, "select")
              ELSE [Answer(c, "select", "update", None)
                       EXCEPT !.job = Some(read)]]
       /\ UNCHANGED <<newspapers, issues, pages, jobs, nextId, returned,
                      ncalls, hist, resp>>

\* IngestJobRepository.increment_progress: get_by_id
ScJobSelect(fails) ==
    LET c == call["w1"]
        job == get_by_id(jobs, c.args.job_id)
    IN /\ c.op = "increment_progress"
       /\ c.pc = "select"
       /\ call' = [call EXCEPT !["w1"] =
              IF fails THEN Propagate(c, "select")
              ELSE IF job.kind # "row"
                   THEN Answer(c, "select", "done",
                            Raised(<<"Job", ToString(c.args.job_id),
                                     "not", "found">>))
                   ELSE [Answer(c, "select", "update", None)
                            EXCEPT !.job = Some(job.row)]]
       /\ UNCHANGED <<newspapers, issues, pages, jobs, nextId, returned,
                      ncalls, hist, resp>>

\* IngestJobRepository.increment_progress: update_job(job_id, progress=...)
ScJobUpdate(fails) ==
    LET c == call["w1"]
        progress == NewProgress(c.job[1].progress, c.args)
        res == update_job(c.args.job_id,
                   [issue_id |-> None, status |-> None,
                    progress |-> Some(progress), error_message |-> None])
    IN /\ c.op = "increment_progress"
       /\ c.pc = "update"
       /\ IF fails
          THEN /\ call' = [call EXCEPT !["w1"] = Propagate(c, "update")]
               /\ UNCHANGED jobs
          ELSE /\ call' = [call EXCEPT !["w1"] =
                      Answer(c, "update", "done",
                             UpdateResult(res, c.args.job_id, "ingest_jobs"))]
               /\ jobs' = res.rows
       /\ UNCHANGED <<newspapers, issues, pages, nextId, returned, ncalls,
                      hist, resp>>

\* PageRepository.update_status: its one store call
ScPageUpdate(fails) ==
    LET c == call["w1"]
        res == update_status(c.args.page_id, c.args.status)
    IN /\ c.op = "update_status"
       /\ c.pc = "update"
       /\ IF fails
          THEN /\ call' = [call EXCEPT !["w1"] = Propagate(c, "update")]
               /\ UNCHANGED pages
          ELSE /\ call' = [call EXCEPT !["w1"] =
                      Answer(c, "update", "done",
                             UpdateResult(res, c.args.page_id, "pages"))]
               /\ pages' = res.rows
       /\ UNCHANGED <<newspapers, issues, jobs, nextId, returned, ncalls,
                      hist, resp>>

ScStartStep ==
    \/ \E d \in IssueDates :
          ScStart("issue_create_or_get",
              [newspaper_id |-> "n1", issue_date |-> d, num_pages |-> 0,
               source_type |-> "upload", source_external_id |-> None,
               metadata |-> None])
    \/ \E name \in NewspaperNames : ScStart("get_or_create", [name |-> name])
    \/ \E job_id \in {3, 4, 9}, e \in {None, Some("e1")} :
          ScStart("increment_progress",
              [pages_total |-> 3, pages_processed |-> 1,
               current_stage |-> "processing",
               job_id |-> job_id, error |-> e])
    \/ \E page_id \in {2, 9} :
          ScStart("update_status", [status |-> "indexed", page_id |-> page_id])

NextStoreCalls ==
    \/ ScStartStep
    \/ \E fails \in BOOLEAN :
          \/ ScIssueSelect(fails)
          \/ ScIssueUpsert(fails)
          \/ ScNewspaperSelect(fails)
          \/ ScNewspaperInsert(fails)
          \/ ScJobSelect(fails)
          \/ ScJobUpdate(fails)
          \/ ScPageUpdate(fails)

\* The jobs of the store: job 3 as create_with_key leaves it (pending) and
\* job 4 in processing, with an issue, an error message and counts.
StoredJobs ==
    {[CreatedJob EXCEPT !.id = 3],
     [CreatedJob EXCEPT !.id = 4, !.idempotency_key = "k0",
                        !.status = "processing", !.issue_id = Some(7),
                        !.error_message = Some("boom"),
                        !.progress = SomeProgress]}

\* One issue (id 1), one of its pages (id 2) and the two jobs.
InitStoreCalls ==
    /\ newspapers = {}
    /\ issues = {Merge([IssueDefaults EXCEPT !.id = 1],
                       [newspaper_id |-> "n1", issue_date |-> 1, num_pages |-> 2],
                       IssueNullable)}
    /\ pages = {Merge([PageDefaults EXCEPT !.id = 2],
                      [issue_id |-> 1, page_number |-> 1, image_path |-> "a.png"],
                      PageNullable)}
    /\ jobs = StoredJobs
    /\ nextId = 5
    /\ call = [w \in Workers |-> IdleCall]
    /\ returned = {}
    /\ ncalls = 0
    /\ hist = NoHist
    /\ resp = NoResp

SpecStoreCalls == InitStoreCalls /\ [][NextStoreCalls]_vars

\* C22: no repository operation retries: each store call of an operation is
\* attempted at most once, and a failed store call is the operation's last:
\* the operation ends there with the store's error for the caller (a failed
\* read of increment_progress or create_or_get is never followed by its
\* write).
C22_NoRetry ==
    LET c == call["w1"]
    IN c.op # "none" =>
          /\ \A i, j \in 1..Len(c.attempts) :
                 c.attempts[i].step = c.attempts[j].step => i = j
          /\ \A i \in 1..Len(c.attempts) :
                 ~c.attempts[i].ok =>
                     /\ i = Len(c.attempts)
                     /\ c.pc = "done"
                     /\ c.ret = Raised(StoreError)

\* The existence read of create_or_get failed: one attempt, no upsert.
C22_Witness ==
    LET c == call["w1"]
    IN /\ c.op = "issue_create_or_get"
       /\ c.pc = "done"
       /\ c.attempts = <<[step |-> "select", ok |-> FALSE]>>
       /\ c.ret = Raised(StoreError)

\* The write of increment_progress failed after its read had answered.
C22_WitnessWrite ==
    LET c == call["w1"]
    IN /\ c.op = "increment_progress"
       /\ c.pc = "done"
       /\ c.attempts = <<[step |-> "select", ok |-> TRUE],
                         [step |-> "update", ok |-> FALSE]>>

\* ---------------------------------------------------------------------------
\* increment_progress: the caller's counters
\* ---------------------------------------------------------------------------

\* C23: after an increment_progress call completes, the stored progress has
\* pages_processed, pages_total and current_stage equal to the values the
\* call supplied, whatever was stored before: they are overwritten, not
\* added to.
C23_CountersOverwritten ==
    \A w \in Workers :
        (Completed(w) /\ call[w].wroteAt = hist.writes) =>
            LET p == TargetJob.progress
                a == call[w].args
            IN /\ p.pages_processed = a.pages_processed
               /\ p.pages_total = a.pages_total
               /\ p.current_stage = a.current_stage

\* A job stored with other counters and another stage takes the call's.
C23_Witness ==
    LET c == call["w1"]
    IN /\ Completed("w1")
       /\ c.wroteAt = hist.writes
       /\ c.job.progress = SomeProgress
       /\ c.job.progress.pages_processed > 0
       /\ c.job.progress.pages_processed # c.args.pages_processed
       /\ c.job.progress.pages_total # c.args.pages_total
       /\ c.job.progress.current_stage # c.args.current_stage
       /\ TargetJob.progress.pages_processed = c.args.pages_processed

\* ---------------------------------------------------------------------------
\* create_or_get on a stored key
\* ---------------------------------------------------------------------------

\* The rows of a table that hold the natural key of create_or_get call c.
StoredFor(c) ==
    IF c.op = "issue_create_or_get"
    THEN {r \in issues : r.newspaper_id = c.args.newspaper_id
                         /\ r.issue_date = c.args.issue_date}
    ELSE {r \in pages : r.issue_id = c.args.issue_id
                        /\ r.page_number = c.args.page_number}

\* C24: when a record with the natural key is stored at the time of
\* create_or_get's existence read, the call returns that record and makes no
\* write: the stored rows are unchanged, also when the caller's attribute
\* values differ from the stored ones.
C24_ExistingReturnedUnwritten ==
    [][\A w \in Workers :
          (/\ call[w].pc \in {"idle", "done"}
           /\ call'[w] # call[w]
           /\ StoredFor(call'[w]) # {})
          => /\ call'[w].pc = "done"
             /\ \E r \in StoredFor(call'[w]) : call'[w].ret = Ok(r.id)
             /\ issues' = issues
             /\ pages' = pages]_vars

\* A call returned the stored issue although it passed another num_pages, and
\* one returned the stored page although it passed another image_path.
C24_Witness ==
    /\ \E w \in Workers, r \in issues :
          /\ call[w].op = "issue_create_or_get"
          /\ call[w].pc = "done"
          /\ call[w].via = "read"
          /\ call[w].ret = Ok(r.id)
          /\ r.num_pages # call[w].args.num_pages
    /\ \E w \in Workers, r \in pages :
          /\ call[w].op = "page_create_or_get"
          /\ call[w].pc = "done"
          /\ call[w].via = "read"
          /\ call[w].ret = Ok(r.id)
          /\ r.image_path # call[w].args.image_path

\* C25: under any interleaving of two create_or_get calls with the same
\* natural key and different attribute values, the attributes stored by the
\* call that inserts the row are never changed by the other call: a stored
\* issue or page keeps its values in every step.
C25_InsertedAttributesKept ==
    [][/\ \A r \in issues : \A r2 \in issues' : r2.id = r.id => r2 = r
       /\ \A r \in pages : \A r2 \in pages' : r2.id = r.id => r2 = r]_vars

\* ---------------------------------------------------------------------------
\* increment_progress: the outcome counters over time
\* ---------------------------------------------------------------------------

\* pages_succeeded and pages_failed do not go down in this step.
CountersKept ==
    /\ Get(TargetJob'.progress, "pages_succeeded", 0)
           >= Get(TargetJob.progress, "pages_succeeded", 0)
    /\ Get(TargetJob'.progress, "pages_failed", 0)
           >= Get(TargetJob.progress, "pages_failed", 0)

\* C26 as stated: across any interleaving of concurrent increment_progress
\* calls on one job, the stored pages_succeeded and pages_failed never
\* decrease from one stored state of the job to the next.
C26_CountersNeverDecrease == [][CountersKept]_vars

\* C26 amended: the stored pages_succeeded and pages_failed never decrease in
\* the write of an increment_progress call that is serialized with the other
\* writes of the job, that is, when no other write of the job's progress came
\* between the call's read and its write.
C26_SerializedNeverDecrease ==
    [][\A w \in Workers :
          (/\ call[w].pc = "write"
           /\ call'[w].pc = "done"
           /\ call[w].readAt = hist.writes)
          => CountersKept]_vars

\* The second of two serialized calls has written and the counters stand
\* above those of a job that started with counts.
C26_Witness ==
    \E w \in Workers :
        /\ Completed(w)
        /\ call[w].readAt = 1
        /\ call[w].wroteAt = 2
        /\ hist.writes = 2
        /\ hist.outcomes0 = 2
        /\ Get(TargetJob.progress, "pages_succeeded", 0) = 2
        /\ Get(TargetJob.progress, "pages_failed", 0) = 2

\* ---------------------------------------------------------------------------
\* increment_progress on a job that is not stored
\* ---------------------------------------------------------------------------

\* C27: increment_progress on a job id that is not in the store raises
\* 'Job <id> not found' and makes no write: its only store call is the read,
\* and the store is unchanged by the failed call.
C27_MissingJobRaises ==
    [][LET c == call["w1"]
           d == call'["w1"]
       IN (/\ c.op = "increment_progress"
           /\ c.pc = "select"
           /\ get_by_id(jobs, c.args.job_id).kind # "row"
           /\ d.attempts = <<[step |-> "select", ok |-> TRUE]>>)
          => /\ d.pc = "done"
             /\ d.ret = Raised(<<"Job", ToString(c.args.job_id), "not", "found">>)
             /\ jobs' = jobs
             /\ UNCHANGED <<newspapers, issues, pages>>]_vars

\* The call for job 9 has ended with the error after its read, and the jobs
\* are stored as before.
C27_Witness ==
    LET c == call["w1"]
    IN /\ c.op = "increment_progress"
       /\ c.pc = "done"
       /\ c.args.job_id = 9
       /\ c.attempts = <<[step |-> "select", ok |-> TRUE]>>
       /\ c.ret = Raised(<<"Job", "9", "not", "found">>)
       /\ jobs = StoredJobs

\* ---------------------------------------------------------------------------
\* increment_progress: what the write touches
\* ---------------------------------------------------------------------------

\* C28: increment_progress writes only the progress field of the target job:
\* in every step of the call the target job keeps its status, issue_id,
\* error_message and idempotency_key, every other job keeps every field, and
\* no job is added or removed (a pending job is not moved to processing).
C28_OnlyProgressWritten ==
    [][LET c == call["w1"]
       IN (c.op = "increment_progress" /\ call'["w1"].op = "increment_progress")
          => /\ {j.id : j \in jobs'} = {j.id : j \in jobs}
             /\ Cardinality(jobs') = Cardinality(jobs)
             /\ \A j \in jobs : \A j2 \in jobs' :
                   j2.id = j.id =>
                       IF j.id = c.args.job_id
                       THEN [j2 EXCEPT !.progress = j.progress] = j
                       ELSE j2 = j]_vars

\* The pending job 3 has a new progress after a completed call and is still
\* pending; job 4 is stored as before.
C28_Witness ==
    LET c == call["w1"]
    IN /\ c.op = "increment_progress"
       /\ c.pc = "done"
       /\ c.args.job_id = 3
       /\ c.ret = Ok(3)
       /\ \E j \in jobs :
             /\ j.id = 3
             /\ j.status = "pending"
             /\ j.progress # DefaultProgress
       /\ \E j \in jobs \cap StoredJobs : j.id = 4

(***************************************************************************)
(* update_job and update_ocr called one after another on a stored job and  *)
(* a stored page.                                                          *)
(***************************************************************************)
\* Job 1 as create_with_key leaves it, issue 1 and its page 2 as
\* create_or_get leaves them.
InitUpdates ==
    /\ newspapers = {}
    /\ issues = {Merge([IssueDefaults EXCEPT !.id = 1],
                       [newspaper_id |-> "n1", issue_date |-> 1, num_pages |-> 2],
                       IssueNullable)}
    /\ pages = {Merge([PageDefaults EXCEPT !.id = 2],
                      [issue_id |-> 1, page_number |-> 1, image_path |-> "a.png"],
                      PageNullable)}
    /\ jobs = {CreatedJob}
    /\ nextId = 3
    /\ call = [w \in Workers |-> IdleCall]
    /\ returned = {}
    /\ ncalls = 0
    /\ hist = NoHist
    /\ resp = NoResp

\* update_job by worker w1: issue_id, status and error_message given or not.
UpdatesJobStep ==
    \E i \in Opt({7}), st \in Opt({"processing"}), em \in Opt({"boom"}) :
        UpdateJobCall("w1", 1,
            [issue_id |-> i, status |-> st, progress |-> None,
             error_message |-> em])

\* update_ocr by worker w2 on the stored page or on a missing one.
UpdatesOcrStep ==
    \E page_id \in PageIdArgs, a \in UpdateOcrArgs :
        UpdateOcrCall("w2", page_id, a)

NextUpdates == UpdatesJobStep \/ UpdatesOcrStep

SpecUpdates == InitUpdates /\ [][NextUpdates]_vars

\* Column f of the row with r's id is non-null after the step if it was before.
StaysSet(r, rows, f) ==
    \A r2 \in rows : (r2.id = r.id /\ r[f] # None) => r2[f] # None

\* C29: a field once set to a non-null value is never reset to null by the
\* update operations: in every step of update_job a job's issue_id and
\* error_message, and in every step of update_ocr a page's ocr_confidence,
\* ocr_provider, ocr_version and ocr_meta, stay non-null when they were
\* non-null (None arguments are dropped and the stored value is kept).
C29_NeverResetToNull ==
    [][/\ \A j \in jobs : \A f \in {"issue_id", "error_message"} :
             StaysSet(j, jobs', f)
       /\ \A p \in pages :
             \A f \in {"ocr_confidence", "ocr_provider", "ocr_version",
                       "ocr_meta"} :
                 StaysSet(p, pages', f)]_vars

\* update_job without issue_id and error_message has completed on a job that
\* holds both, and update_ocr with the text alone on a page that holds the
\* four optional OCR values.
C29_Witness ==
    /\ call["w1"].op = "update_job"
    /\ call["w1"].ret.status = "ok"
    /\ call["w1"].args.issue_id = None
    /\ call["w1"].args.error_message = None
    /\ \E j \in jobs : j.id = 1 /\ j.issue_id # None /\ j.error_message # None
    /\ call["w2"].op = "update_ocr"
    /\ call["w2"].ret.status = "ok"
    /\ call["w2"].args.ocr_confidence = None
    /\ call["w2"].args.ocr_meta = None
    /\ \E p \in pages :
          /\ p.id = call["w2"].page_id
          /\ \A f \in {"ocr_confidence", "ocr_provider", "ocr_version",
                       "ocr_meta"} : p[f] # None

\* ---------------------------------------------------------------------------
\* GET /api/issues: total against the number of matching issues
\* ---------------------------------------------------------------------------

\* The issues that match the filter of the list response.
Matching ==
    IF resp.newspaper_id # None
    THEN {r \in issues : r.newspaper_id = resp.newspaper_id[1]}
    ELSE issues

\* C30 as stated: for GET /api/issues against an unchanging store, the
\* reported total never exceeds the number of issues matching the request,
\* for every valid limit and every offset, offsets past the end included.
C30_TotalAtMostMatching ==
    resp.status = 200 => resp.total <= Cardinality(Matching)

\* C30 amended: the reported total never exceeds the number of matching
\* issues for every valid limit and every offset up to the number of
\* matching issues.
C30_TotalAtMostMatchingWithinData ==
    (resp.status = 200 /\ resp.offset <= Cardinality(Matching)) =>
        resp.total <= Cardinality(Matching)

\* A page in the middle of three matching issues: total 3 of 3, with more to
\* come.
C30_Witness ==
    /\ resp.status = 200
    /\ Cardinality(Matching) = 3
    /\ resp.offset = 1
    /\ resp.limit = 1
    /\ resp.has_more
    /\ resp.total = 3
====
